---- MODULE Spec2Model ----
(***************************************************************************)
(* Model of Kleopatra's local IPC transport:                               *)
(*   - KDPipeIODevice with its Reader and Writer worker threads            *)
(*     (src/src/utils/kdpipeiodevice.cpp),                                 *)
(*   - UiServer start-up on the endpoint path                              *)
(*     (src/src/uiserver/uiserver.cpp).                                    *)
(*                                                                         *)
(* Threads are modelled by a program counter each.  Every action is one    *)
(* critical section of the thread: the code it runs from acquiring the     *)
(* object's mutex (or returning from QWaitCondition::wait, which           *)
(* re-acquires it) up to the point where it releases the mutex again (the  *)
(* next wait, an explicit unlock around a blocking OS call, or the end of  *)
(* the locked scope).  A QWaitCondition has at most one waiter here, so a  *)
(* wait is a program counter value named after the condition and wakeAll   *)
(* sets the waiter's `woken` flag.  There are no spurious wake-ups.        *)
(***************************************************************************)
EXTENDS Integers, Sequences, FiniteSets, TLC

(* ---------------------------------------------------------------- bounds *)

\* The ring buffer / staging slot capacity.  The program uses 4096
\* (kdpipeiodevice.cpp:42); the model is checked with a small capacity.
BUFFER_SIZE == 2

\* Number of bytes the peer can deliver to the Reader before it stops.
MaxStream == 4

\* Largest maxSize a consumer passes to read().
MaxSize == 2

\* Number of bytes the consumer offers to write() beyond the slot capacity.
MaxExtra == 2

\* Posted (not yet delivered) Reader::readyRead events in the event queue.
MaxQueued == 1

VARIABLES
    d,      \* KDPipeIODevice / KDPipeIODevice::Private
    r,      \* the Reader object and its thread
    w,      \* the Writer object and its thread
    c,      \* the consumer thread (caller of the device, runs the event loop)
    os,     \* the OS side of the descriptor
    app,    \* what the consumer has received from read() / handed to write()
    res,    \* result of the consumer's last completed call
    srv,    \* the UiServer instances and the endpoint path
    cl      \* the client library: hexencode and a Command with its worker

vars == <<d, r, w, c, os, app, res, srv, cl>>

Min(a, b) == IF a < b THEN a ELSE b

\* The k bytes that follow the first n bytes of a stream.  Byte i of a stream
\* carries the value i, so loss, duplication and reordering are all visible.
Bytes(n, k) == [i \in 1..k |-> n + i]

(* ----------------------------------------------------- Reader: ring buffer *)

\* sizeof buffer, with buffer declared char buffer[BUFFER_SIZE + 1]
SizeofBuffer == BUFFER_SIZE + 1

bytesInBuffer(rr) == (rr.wptr + SizeofBuffer - rr.rptr) % SizeofBuffer

bufferFull(rr) == bytesInBuffer(rr) = SizeofBuffer - 1

bufferEmpty(rr) == bytesInBuffer(rr) = 0

\* The unread bytes of the ring buffer, oldest first.
Buffered(rr) ==
    [i \in 1..bytesInBuffer(rr) |-> rr.buffer[(rr.rptr + i - 1) % SizeofBuffer]]

\* QWaitCondition::wakeAll on one of the Reader's conditions the Reader thread
\* itself sleeps on.
wakeReader(rr, cond) == IF rr.pc = cond THEN [rr EXCEPT !.woken = TRUE] ELSE rr

\* The condition the consumer thread sleeps on at each of its waits.
ConsumerWaitsOn(cc) ==
    CASE cc.pc = "hasStarted" -> "hasStarted"
      [] cc.pc \in {"rd_wait", "wfrr_wait"} -> "bufferNotEmpty"
      [] cc.pc \in {"wr_wait", "wfbw_wait", "cl_wait"} -> "bufferEmpty"
      [] OTHER -> "none"

\* QWaitCondition::wakeAll on a condition the consumer thread sleeps on.
wakeConsumer(cc, cond) ==
    IF ConsumerWaitsOn(cc) = cond THEN [cc EXCEPT !.woken = TRUE] ELSE cc

ReaderInit ==
    [ pc |-> "notStarted", woken |-> FALSE, site |-> "-", wasEmpty |-> FALSE,
      numBytes |-> 0,
      cancel |-> FALSE, eof |-> FALSE, error |-> FALSE, eofShortCut |-> FALSE,
      consumerBlocksOnUs |-> FALSE, rptr |-> 0, wptr |-> 0,
      buffer |-> [i \in 0..BUFFER_SIZE |-> 0] ]

(* -------------------------------------------------- Reader thread: run() *)

\* A critical section of the Reader ends in a record [r, fx]: the Reader's new
\* state and what it did to the consumer on the way ("wake": woke
\* bufferNotEmptyCondition, "emit": posted readyRead, "none").

notifyReadyRead(rr, site) ==
    IF rr.consumerBlocksOnUs
    THEN [r |-> [rr EXCEPT !.pc = "blockedConsumerIsDone", !.site = site,
                           !.woken = FALSE],
          fx |-> "wake"]
    ELSE [r |-> [rr EXCEPT !.pc = "readyReadSent", !.site = site,
                           !.woken = FALSE],
          fx |-> "emit"]

RECURSIVE loopTop(_)

\* if (cancel) goto leave; if (!eof && !error) { ... ::read(...) }
\* Variant of the read branch without the test of eof and error.
readBranchIgnoresLatch(rr) ==
    IF rr.cancel
    THEN [r |-> [rr EXCEPT !.pc = "finished"], fx |-> "none"]
    ELSE LET p  == IF rr.rptr = rr.wptr
                   THEN [rr EXCEPT !.rptr = 0, !.wptr = 0] ELSE rr
             nb == (p.rptr + SizeofBuffer - p.wptr - 1) % SizeofBuffer
             numBytes == IF nb > SizeofBuffer - p.wptr
                         THEN SizeofBuffer - p.wptr ELSE nb
         IN  [r |-> [p EXCEPT !.pc = "read", !.numBytes = numBytes],
              fx |-> "none"]

\* Variant of the read branch that asks for the reserved byte as well.
readBranchNoReserve(rr) ==
    IF rr.cancel
    THEN [r |-> [rr EXCEPT !.pc = "finished"], fx |-> "none"]
    ELSE IF ~rr.eof /\ ~rr.error
    THEN LET p  == IF rr.rptr = rr.wptr
                   THEN [rr EXCEPT !.rptr = 0, !.wptr = 0] ELSE rr
             nb == IF p.rptr = p.wptr THEN SizeofBuffer
                   ELSE (p.rptr + SizeofBuffer - p.wptr) % SizeofBuffer
             numBytes == IF nb > SizeofBuffer - p.wptr
                         THEN SizeofBuffer - p.wptr ELSE nb
         IN  [r |-> [p EXCEPT !.pc = "read", !.numBytes = numBytes],
              fx |-> "none"]
    ELSE loopTop(rr)

readBranch(rr) ==
    IF rr.cancel
    THEN [r |-> [rr EXCEPT !.pc = "finished"], fx |-> "none"]
    ELSE IF ~rr.eof /\ ~rr.error
    THEN LET p  == IF rr.rptr = rr.wptr
                   THEN [rr EXCEPT !.rptr = 0, !.wptr = 0] ELSE rr
             nb == (p.rptr + SizeofBuffer - p.wptr - 1) % SizeofBuffer
             numBytes == IF nb > SizeofBuffer - p.wptr
                         THEN SizeofBuffer - p.wptr ELSE nb
         IN  [r |-> [p EXCEPT !.pc = "read", !.numBytes = numBytes],
              fx |-> "none"]
    ELSE loopTop(rr)

\* while (!cancel && !error && bufferFull()) { notifyReadyRead(); ... }
fullLoop(rr) ==
    IF ~rr.cancel /\ ~rr.error /\ bufferFull(rr)
    THEN notifyReadyRead(rr, "C")
    ELSE readBranch(rr)

\* Variant of the top of the loop that notifies for an empty buffer as well.
loopTopNotifiesEmpty(rr) ==
    IF ~rr.cancel /\ (rr.eof \/ rr.error)
    THEN notifyReadyRead([rr EXCEPT !.wasEmpty = bufferEmpty(rr)], "A")
    ELSE IF ~rr.cancel /\ ~bufferFull(rr)
    THEN notifyReadyRead(rr, "B")
    ELSE fullLoop(rr)

\* top of while (true)
loopTop(rr) ==
    IF ~rr.cancel /\ (rr.eof \/ rr.error)
    THEN notifyReadyRead([rr EXCEPT !.wasEmpty = bufferEmpty(rr)], "A")
    ELSE IF ~rr.cancel /\ ~bufferFull(rr) /\ ~bufferEmpty(rr)
    THEN notifyReadyRead(rr, "B")
    ELSE fullLoop(rr)

\* The code that follows the return of notifyReadyRead at each call site.
afterNotify(rr) ==
    CASE rr.site = "A" ->
            IF ~rr.cancel /\ rr.wasEmpty
            THEN [r |-> [rr EXCEPT !.pc = "waitForCancel", !.woken = FALSE],
                  fx |-> "none"]
            ELSE fullLoop(rr)
      [] rr.site = "B" -> fullLoop(rr)
      [] OTHER ->
            IF ~rr.cancel /\ bufferFull(rr)
            THEN [r |-> [rr EXCEPT !.pc = "bufferNotFull", !.woken = FALSE],
                  fx |-> "none"]
            ELSE fullLoop(rr)

\* What one outcome of ::read does to the Reader: k > 0 bytes stored at wptr,
\* k = 0 end of file, k < 0 an error other than EINTR.
readResult(rr, k, delivered) ==
    IF k < 0 THEN [rr EXCEPT !.error = TRUE]
    ELSE IF k = 0 THEN [rr EXCEPT !.eof = TRUE]
    ELSE [rr EXCEPT
            !.buffer = [i \in 0..BUFFER_SIZE |->
                          IF i >= rr.wptr /\ i < rr.wptr + k
                          THEN delivered + (i - rr.wptr) + 1
                          ELSE rr.buffer[i]],
            !.wptr = (rr.wptr + k) % SizeofBuffer]

ReaderWaits == {"waitForCancel", "bufferNotFull", "readyReadSent",
                "blockedConsumerIsDone"}

\* The effect of a Reader critical section on the consumer and the event queue
\* (readyRead is connected to Private::emitReadyRead with a queued connection).
ReaderEffect(e) ==
    /\ e.fx = "emit" /\ d.connected => d.queued < MaxQueued
    /\ r' = e.r
    /\ c' = IF e.fx = "wake" THEN wakeConsumer(c, "bufferNotEmpty") ELSE c
    /\ d' = IF e.fx = "emit" /\ d.connected
            THEN [d EXCEPT !.queued = @ + 1] ELSE d

\* Reader::run up to its first wait or OS read.
ReaderStart ==
    /\ r.pc = "starting"
    /\ ReaderEffect(loopTop(r))
    /\ UNCHANGED <<w, os, app, res, srv, cl>>

\* Variant of the Reader's waits that return without a wake-up.
ReaderWakeSpurious ==
    /\ r.pc \in ReaderWaits
    /\ ReaderEffect(IF r.pc \in {"readyReadSent", "blockedConsumerIsDone"}
                    THEN afterNotify(r) ELSE fullLoop(r))
    /\ UNCHANGED <<w, os, app, res, srv, cl>>

\* Return from a QWaitCondition::wait in Reader::run / notifyReadyRead.
ReaderWake ==
    /\ r.pc \in ReaderWaits
    /\ r.woken
    /\ ReaderEffect(IF r.pc \in {"readyReadSent", "blockedConsumerIsDone"}
                    THEN afterNotify(r) ELSE fullLoop(r))
    /\ UNCHANGED <<w, os, app, res, srv, cl>>

\* ::read returns: k bytes of data (as long as the peer has some to send),
\* 0 (end of file) or -1 (an error other than EINTR).
ReaderRead ==
    /\ r.pc = "read"
    /\ \E k \in -1..Min(r.numBytes, os.stream - os.delivered) :
          /\ ReaderEffect(loopTop(readResult(r, k, os.delivered)))
          /\ os' = [os EXCEPT !.delivered = IF k > 0 THEN @ + k ELSE @]
    /\ UNCHANGED <<w, app, res, srv, cl>>

(* ------------------------------------------- consumer thread: read side *)

ConsumerInit == [pc |-> "idle", woken |-> FALSE, n |-> 0, maxSize |-> 0]

\* The result of a call of the consumer: the call, its size argument, and the
\* number or the boolean it returns.
Result(op, n, ret, ok) == [op |-> op, n |-> n, ret |-> ret, ok |-> ok]

NoResult == Result("none", 0, 0, TRUE)

\* The consumer thread at the return of a call; res holds the result.
returned(cc) == [cc EXCEPT !.pc = "returned", !.woken = FALSE,
                           !.n = 0, !.maxSize = 0]

\* The caller takes the result and goes on.
Return ==
    /\ c.pc = "returned"
    /\ c' = [c EXCEPT !.pc = "idle"]
    /\ res' = NoResult
    /\ UNCHANGED <<d, r, w, os, app, srv, cl>>

\* KDPipeIODevice::bytesAvailable once the Reader start has been tried;
\* QIODevice::bytesAvailable() is 0 for this unbuffered device.
bytesAvailable == IF d.reader THEN bytesInBuffer(r) ELSE 0

\* Private::startReaderThread when it runs for the first time: the consumer
\* starts the thread and waits (at most 1000 ms) on hasStarted.
StartReaderThread ==
    /\ c.pc = "idle"
    /\ d.open
    /\ ~d.triedToStartReader
    /\ d' = [d EXCEPT !.triedToStartReader = TRUE]
    /\ IF d.reader /\ r.pc = "notStarted"
       THEN /\ r' = [r EXCEPT !.pc = "starting"]
            /\ c' = [c EXCEPT !.pc = "hasStarted", !.woken = FALSE]
       ELSE UNCHANGED <<r, c>>
    /\ UNCHANGED <<w, os, app, res, srv, cl>>

\* hasStarted.wait(&mutex, 1000) returns: woken by the thread or timed out.
\* The callers ignore which.
HasStarted ==
    /\ c.pc = "hasStarted"
    /\ c' = [c EXCEPT !.pc = "idle", !.woken = FALSE]
    /\ UNCHANGED <<d, r, w, os, app, res, srv, cl>>

\* Variants of Reader::readData: one advances rptr by the size asked for, one
\* copies across the end of the array.
readerReadDataSkips(rr, maxSize) ==
    LET avail   == IF rr.rptr < rr.wptr THEN rr.wptr - rr.rptr
                   ELSE SizeofBuffer - rr.rptr
        numRead == IF avail > maxSize THEN maxSize ELSE avail
        rr1     == [rr EXCEPT !.rptr = (rr.rptr + maxSize) % SizeofBuffer]
    IN  [ r    |-> IF ~bufferFull(rr1) THEN wakeReader(rr1, "bufferNotFull")
                   ELSE rr1,
          ret  |-> numRead,
          data |-> [i \in 1..numRead |-> rr.buffer[rr.rptr + i - 1]] ]

readerReadDataWraps(rr, maxSize) ==
    LET avail   == bytesInBuffer(rr)
        numRead == IF avail > maxSize THEN maxSize ELSE avail
        rr1     == [rr EXCEPT !.rptr = (rr.rptr + numRead) % SizeofBuffer]
    IN  [ r    |-> IF ~bufferFull(rr1) THEN wakeReader(rr1, "bufferNotFull")
                   ELSE rr1,
          ret  |-> numRead,
          data |-> [i \in 1..numRead |->
                       rr.buffer[(rr.rptr + i - 1) % SizeofBuffer]] ]

\* Reader::readData: copy out of the ring buffer, under the Reader's mutex.
readerReadData(rr, maxSize) ==
    LET avail   == IF rr.rptr < rr.wptr THEN rr.wptr - rr.rptr
                   ELSE SizeofBuffer - rr.rptr
        numRead == IF avail > maxSize THEN maxSize ELSE avail
        rr1     == [rr EXCEPT !.rptr = (rr.rptr + numRead) % SizeofBuffer]
    IN  [ r    |-> IF ~bufferFull(rr1) THEN wakeReader(rr1, "bufferNotFull")
                   ELSE rr1,
          ret  |-> numRead,
          data |-> [i \in 1..numRead |-> rr.buffer[rr.rptr + i - 1]] ]

\* KDPipeIODevice::readData from "if (r->bufferEmpty())" to its return.
readTail(rr, maxSize) ==
    IF bufferEmpty(rr)
    THEN [ r    |-> [rr EXCEPT !.eofShortCut = TRUE],
           ret  |-> IF rr.eof THEN 0 ELSE -1,
           data |-> << >> ]
    ELSE readerReadData(rr, maxSize)

\* The consumer's read returns.
ReadReturn(t) ==
    /\ r' = t.r
    /\ app' = [app EXCEPT !.out = @ \o t.data]
    /\ res' = Result("read", c.n, t.ret, t.ret >= 0)
    /\ c' = returned(c)

\* KDPipeIODevice::readData, up to and including the first bytesAvailable().
ReadData ==
    /\ c.pc = "idle"
    /\ d.open /\ d.reader /\ d.triedToStartReader
    /\ \E n \in 0..MaxSize :
          IF r.eofShortCut
          THEN /\ res' = Result("read", n, 0, TRUE)
               /\ c' = returned(c)
               /\ UNCHANGED <<r, app>>
          ELSE /\ c' = [c EXCEPT !.pc = IF bytesAvailable > 0 THEN "rd_peek"
                                        ELSE "rd_lock",
                                 !.n = n, !.maxSize = n]
               /\ UNCHANGED <<r, app, res>>
    /\ UNCHANGED <<d, w, os, srv, cl>>

\* maxSize = std::min(maxSize, bytesAvailable())
ReadPeek ==
    /\ c.pc = "rd_peek"
    /\ c' = [c EXCEPT !.pc = "rd_lock", !.maxSize = Min(c.maxSize, bytesAvailable)]
    /\ UNCHANGED <<d, r, w, os, app, res, srv, cl>>

\* Variant of the locked part of readData without readyReadSentCondition.wakeAll().
ReadLockedNoAck ==
    /\ c.pc = "rd_lock"
    /\ IF bufferEmpty(r) /\ ~r.error /\ ~r.eof
       THEN /\ r' = [r EXCEPT !.consumerBlocksOnUs = TRUE]
            /\ c' = [c EXCEPT !.pc = "rd_wait", !.woken = FALSE]
            /\ UNCHANGED <<app, res>>
       ELSE ReadReturn(readTail(r, c.maxSize))
    /\ UNCHANGED <<d, w, os, srv, cl>>

\* KDPipeIODevice::readData from LOCKED(r): wake the Reader, then either
\* block on bufferNotEmptyCondition or finish.
ReadLocked ==
    /\ c.pc = "rd_lock"
    /\ LET rr == wakeReader(r, "readyReadSent")
       IN  IF bufferEmpty(rr) /\ ~rr.error /\ ~rr.eof
           THEN /\ r' = [rr EXCEPT !.consumerBlocksOnUs = TRUE]
                /\ c' = [c EXCEPT !.pc = "rd_wait", !.woken = FALSE]
                /\ UNCHANGED <<app, res>>
           ELSE ReadReturn(readTail(rr, c.maxSize))
    /\ UNCHANGED <<d, w, os, srv, cl>>

\* The blocked read is woken: acknowledge to the Reader, restore
\* consumerBlocksOnUs (TemporaryValue's destructor) and finish.
ReadWoken ==
    /\ c.pc = "rd_wait"
    /\ c.woken
    /\ LET rr == [wakeReader(r, "blockedConsumerIsDone")
                    EXCEPT !.consumerBlocksOnUs = FALSE]
       IN  ReadReturn(readTail(rr, c.maxSize))
    /\ UNCHANGED <<d, w, os, srv, cl>>

\* KDPipeIODevice::atEnd up to LOCKED(d->reader).  QIODevice::atEnd() of an
\* open device with an empty QIODevice buffer is bytesAvailable() == 0.
AtEnd ==
    /\ c.pc = "idle"
    /\ d.open /\ d.reader /\ d.triedToStartReader
    /\ IF bytesAvailable > 0
       THEN /\ res' = Result("atEnd", 0, 0, FALSE)
            /\ c' = returned(c)
       ELSE IF r.eofShortCut
       THEN /\ res' = Result("atEnd", 0, 0, TRUE)
            /\ c' = returned(c)
       ELSE /\ c' = [c EXCEPT !.pc = "ae_lock"]
            /\ UNCHANGED res
    /\ UNCHANGED <<d, r, w, os, app, srv, cl>>

\* KDPipeIODevice::atEnd from LOCKED(d->reader).
\* Variant of the locked part of atEnd() that looks at the buffer only.
AtEndLockedIgnoresLatch ==
    /\ c.pc = "ae_lock"
    /\ res' = Result("atEnd", 0, 0, bufferEmpty(r))
    /\ c' = returned(c)
    /\ UNCHANGED <<d, r, w, os, app, srv, cl>>

AtEndLocked ==
    /\ c.pc = "ae_lock"
    /\ res' = Result("atEnd", 0, 0, (r.error \/ r.eof) /\ bufferEmpty(r))
    /\ c' = returned(c)
    /\ UNCHANGED <<d, r, w, os, app, srv, cl>>

\* KDPipeIODevice::readWouldBlock
ReadWouldBlock ==
    /\ c.pc = "idle"
    /\ d.open /\ d.reader /\ d.triedToStartReader
    /\ res' = Result("readWouldBlock", 0, 0,
                     bufferEmpty(r) /\ ~r.eof /\ ~r.error)
    /\ c' = returned(c)
    /\ UNCHANGED <<d, r, w, os, app, srv, cl>>

\* KDPipeIODevice::waitForReadyRead(msecs) up to LOCKED(r): true at once if
\* bytesAvailable() > 0 or the eofShortCut is set.
WaitForReadyRead ==
    /\ c.pc = "idle"
    /\ d.open /\ d.reader /\ d.triedToStartReader
    /\ IF bytesAvailable > 0 \/ r.eofShortCut
       THEN /\ res' = Result("waitForReadyRead", 0, 0, TRUE)
            /\ c' = returned(c)
       ELSE /\ c' = [c EXCEPT !.pc = "wfrr_lock"]
            /\ UNCHANGED res
    /\ UNCHANGED <<d, r, w, os, app, srv, cl>>

\* waitForReadyRead from LOCKED(r): true if data is buffered or Eof or Error
\* is latched; otherwise Q_ASSERT(false), which ends the process in a build
\* with assertions and is nothing in a build without, and then the wait on
\* bufferNotEmptyCondition.
WaitForReadyReadLocked ==
    /\ c.pc = "wfrr_lock"
    /\ IF bytesInBuffer(r) # 0 \/ r.eof \/ r.error
       THEN /\ res' = Result("waitForReadyRead", 0, 0, TRUE)
            /\ c' = returned(c)
       ELSE /\ \E assertions \in BOOLEAN :
                 c' = [c EXCEPT !.pc = IF assertions THEN "aborted"
                                       ELSE "wfrr_wait",
                                !.woken = FALSE]
            /\ UNCHANGED res
    /\ UNCHANGED <<d, r, w, os, app, srv, cl>>

\* bufferNotEmptyCondition.wait(&r->mutex, msecs) returns: true when woken,
\* false when the time is up.
WaitForReadyReadReturn ==
    /\ c.pc = "wfrr_wait"
    /\ res' = Result("waitForReadyRead", 0, 0, c.woken)
    /\ c' = returned(c)
    /\ UNCHANGED <<d, r, w, os, app, srv, cl>>

\* Private::emitReadyRead, run by the consumer's event loop for one posted
\* readyRead: emit the device's readyRead, then wake readyReadSentCondition.
EmitReadyRead ==
    /\ c.pc = "idle"
    /\ d.queued > 0
    /\ d' = [d EXCEPT !.queued = @ - 1]
    /\ r' = IF d.reader THEN wakeReader(r, "readyReadSent") ELSE r
    /\ UNCHANGED <<w, c, os, app, res, srv, cl>>

(* ------------------------------------------------- Writer thread: run() *)

WriterInit ==
    [ pc |-> "notStarted", woken |-> FALSE, cancel |-> FALSE, error |-> FALSE,
      numBytesInBuffer |-> 0, buffer |-> << >>, totalWritten |-> 0 ]

writerBufferEmpty(ww) == ww.numBytesInBuffer = 0

\* QWaitCondition::wakeAll on the Writer's bufferNotEmptyCondition.
wakeWriter(ww) ==
    IF ww.pc = "bufferNotEmpty" THEN [ww EXCEPT !.woken = TRUE] ELSE ww

\* leave: numBytesInBuffer = 0; bufferEmptyCondition.wakeAll();
writerLeave(ww) ==
    [ w  |-> [ww EXCEPT !.pc = "finished", !.numBytesInBuffer = 0],
      fx |-> "wake" ]

\* Writer::run from the top of while (true) to its next wait or OS write.
\* fx = "wake": bufferEmptyCondition.wakeAll() was called.
writerLoop(ww) ==
    IF ~ww.cancel /\ writerBufferEmpty(ww)
    THEN [ w  |-> [ww EXCEPT !.pc = "bufferNotEmpty", !.woken = FALSE],
           fx |-> "wake" ]
    ELSE IF ww.cancel
    THEN writerLeave(ww)
    ELSE [ w  |-> [ww EXCEPT !.pc = "write", !.totalWritten = 0],
           fx |-> "none" ]

\* Variant of the Writer's loop that takes a partial write for a complete one.
writeResultNoRetry(ww, k) ==
    IF k < 0
    THEN writerLeave([ww EXCEPT !.error = TRUE])
    ELSE writerLoop([ww EXCEPT !.totalWritten = @ + k,
                               !.numBytesInBuffer = 0])

\* What one outcome of ::write does: k > 0 bytes written, k < 0 an error.
\* Once the slot is flushed it is marked empty and bufferEmptyCondition is
\* woken, here and again at the top of the loop, where the Writer then sleeps.
writeResult(ww, k) ==
    IF k < 0
    THEN writerLeave([ww EXCEPT !.error = TRUE])
    ELSE IF ww.totalWritten + k < ww.numBytesInBuffer
    THEN [ w  |-> [ww EXCEPT !.totalWritten = @ + k], fx |-> "none" ]
    ELSE writerLoop([ww EXCEPT !.totalWritten = @ + k,
                               !.numBytesInBuffer = 0])

WriterEffect(e) ==
    /\ w' = e.w
    /\ c' = IF e.fx = "wake" THEN wakeConsumer(c, "bufferEmpty") ELSE c

\* Writer::run up to its first wait or OS write.
WriterStart ==
    /\ w.pc = "starting"
    /\ WriterEffect(writerLoop(w))
    /\ UNCHANGED <<d, r, os, app, res, srv, cl>>

\* Return from bufferNotEmptyCondition.wait in Writer::run.
WriterWake ==
    /\ w.pc = "bufferNotEmpty"
    /\ w.woken
    /\ WriterEffect(writerLoop(w))
    /\ UNCHANGED <<d, r, os, app, res, srv, cl>>

\* ::write(fd, buffer + totalWritten, numBytesInBuffer - totalWritten)
\* returns: k bytes written, or -1 (an error other than EINTR).
WriterWrite ==
    /\ w.pc = "write"
    /\ \E k \in {-1} \cup (1..(w.numBytesInBuffer - w.totalWritten)) :
          /\ WriterEffect(writeResult(w, k))
          /\ os' = IF k > 0
                   THEN [os EXCEPT !.written =
                           @ \o SubSeq(w.buffer, w.totalWritten + 1,
                                       w.totalWritten + k)]
                   ELSE os
    /\ UNCHANGED <<d, r, app, res, srv, cl>>

(* ------------------------------------------ consumer thread: write side *)

\* Size of the data the consumer has to write.
MaxSource == BUFFER_SIZE + MaxExtra

\* Private::startWriterThread when it runs for the first time.
StartWriterThread ==
    /\ c.pc = "idle"
    /\ d.open
    /\ ~d.triedToStartWriter
    /\ d' = [d EXCEPT !.triedToStartWriter = TRUE]
    /\ IF d.writer /\ w.pc = "notStarted"
       THEN /\ w' = [w EXCEPT !.pc = "starting"]
            /\ c' = [c EXCEPT !.pc = "hasStarted", !.woken = FALSE]
       ELSE UNCHANGED <<w, c>>
    /\ UNCHANGED <<r, os, app, res, srv, cl>>

\* Writer::writeData: stage at most sizeof buffer bytes of data.
\* Variant of Writer::writeData without the cap at sizeof buffer.
writerWriteDataUncapped(ww, data) ==
    LET size == Len(data)
        ww1  == [ww EXCEPT !.buffer = SubSeq(data, 1, size),
                           !.numBytesInBuffer = size]
    IN  [ w   |-> IF ~writerBufferEmpty(ww1) THEN wakeWriter(ww1) ELSE ww1,
          ret |-> size ]

writerWriteData(ww, data) ==
    LET size == IF Len(data) > BUFFER_SIZE THEN BUFFER_SIZE ELSE Len(data)
        ww1  == [ww EXCEPT !.buffer = SubSeq(data, 1, size),
                           !.numBytesInBuffer = size]
    IN  [ w   |-> IF ~writerBufferEmpty(ww1) THEN wakeWriter(ww1) ELSE ww1,
          ret |-> size ]

\* Variant of the locked part of writeData that does not wait for the slot.
writeLockedNoWait(n) ==
    IF w.error
    THEN /\ res' = Result("write", n, -1, FALSE)
         /\ c' = returned(c)
         /\ UNCHANGED <<w, app>>
    ELSE LET t == writerWriteData(w, Bytes(app.accepted, n))
         IN  /\ w' = t.w
             /\ app' = [app EXCEPT !.accepted = @ + t.ret]
             /\ res' = Result("write", n, t.ret, TRUE)
             /\ c' = returned(c)

\* KDPipeIODevice::writeData from LOCKED(w), with n bytes offered:
\* wait for an empty slot, fail on error, else stage the data.
writeLocked(n) ==
    IF ~w.error /\ ~writerBufferEmpty(w)
    THEN /\ c' = [c EXCEPT !.pc = "wr_wait", !.woken = FALSE, !.n = n]
         /\ UNCHANGED <<w, app, res>>
    ELSE IF w.error
    THEN /\ res' = Result("write", n, -1, FALSE)
         /\ c' = returned(c)
         /\ UNCHANGED <<w, app>>
    ELSE LET t == writerWriteData(w, Bytes(app.accepted, n))
         IN  /\ w' = t.w
             /\ app' = [app EXCEPT !.accepted = @ + t.ret]
             /\ res' = Result("write", n, t.ret, TRUE)
             /\ c' = returned(c)

\* KDPipeIODevice::writeData(data, n): the consumer offers the next n bytes
\* of its data.
WriteData ==
    /\ c.pc = "idle"
    /\ d.open /\ d.writer /\ d.triedToStartWriter
    /\ \E n \in 0..(app.source - app.accepted) : writeLocked(n)
    /\ UNCHANGED <<d, r, os, srv, cl>>

\* bufferEmptyCondition.wait returns in writeData: evaluate the loop again.
WriteWoken ==
    /\ c.pc = "wr_wait"
    /\ c.woken
    /\ writeLocked(c.n)
    /\ UNCHANGED <<d, r, os, srv, cl>>

\* KDPipeIODevice::waitForBytesWritten(msecs)
WaitForBytesWritten ==
    /\ c.pc = "idle"
    /\ d.open /\ d.writer /\ d.triedToStartWriter
    /\ IF writerBufferEmpty(w) \/ w.error
       THEN /\ res' = Result("waitForBytesWritten", 0, 0, TRUE)
            /\ c' = returned(c)
       ELSE /\ c' = [c EXCEPT !.pc = "wfbw_wait", !.woken = FALSE]
            /\ UNCHANGED res
    /\ UNCHANGED <<d, r, w, os, app, srv, cl>>

\* bufferEmptyCondition.wait(&w->mutex, msecs) returns: true when woken,
\* false when the time is up.
WaitForBytesWrittenReturn ==
    /\ c.pc = "wfbw_wait"
    /\ res' = Result("waitForBytesWritten", 0, 0, c.woken)
    /\ c' = returned(c)
    /\ UNCHANGED <<d, r, w, os, app, srv, cl>>

(* --------------------------------------------------------------- close() *)

\* QThread::wait(): returns once the thread has finished, at once for a
\* thread that was never started.
\* Variant of QThread::wait that returns while the thread still runs.
joinedAtOnce(t) == TRUE

joined(t) == t.pc \in {"notStarted", "finished"}

\* Variant of close() that does not wait for the pending write.
CloseNoFlush ==
    /\ c.pc = "idle"
    /\ d.open
    /\ c' = [c EXCEPT !.pc = "cl_stopReader"]
    /\ UNCHANGED <<d, r, w, os, app, res, srv, cl>>

\* KDPipeIODevice::close up to the first lock in Private::stopThreads:
\* the bytesToWrite() > 0 test.
Close ==
    /\ c.pc = "idle"
    /\ d.open
    /\ c' = [c EXCEPT !.pc = IF d.triedToStartWriter /\ d.writer
                                /\ w.numBytesInBuffer > 0
                             THEN "cl_wfbw" ELSE "cl_stopReader"]
    /\ UNCHANGED <<d, r, w, os, app, res, srv, cl>>

\* stopThreads: q->waitForBytesWritten(-1)
CloseWaitForBytesWritten ==
    /\ c.pc = "cl_wfbw"
    /\ c' = [c EXCEPT !.pc = IF writerBufferEmpty(w) \/ w.error
                             THEN "cl_stopReader" ELSE "cl_wait",
                      !.woken = FALSE]
    /\ UNCHANGED <<d, r, w, os, app, res, srv, cl>>

\* bufferEmptyCondition.wait(&w->mutex, -1) returns.
CloseWoken ==
    /\ c.pc = "cl_wait"
    /\ c.woken
    /\ c' = [c EXCEPT !.pc = "cl_stopReader", !.woken = FALSE]
    /\ UNCHANGED <<d, r, w, os, app, res, srv, cl>>

\* stopThreads: disconnect readyRead, set the Reader's cancel and wake it.
\* Variant of the Reader's cancellation without bufferNotFullCondition.wakeAll().
CloseStopReaderNoWake ==
    /\ c.pc = "cl_stopReader"
    /\ IF d.reader
       THEN /\ d' = [d EXCEPT !.connected = FALSE]
            /\ r' = wakeReader(wakeReader(
                        [r EXCEPT !.cancel = TRUE],
                        "waitForCancel"), "readyReadSent")
       ELSE UNCHANGED <<d, r>>
    /\ c' = [c EXCEPT !.pc = "cl_stopWriter"]
    /\ UNCHANGED <<w, os, app, res, srv, cl>>

CloseStopReader ==
    /\ c.pc = "cl_stopReader"
    /\ IF d.reader
       THEN /\ d' = [d EXCEPT !.connected = FALSE]
            /\ r' = wakeReader(wakeReader(wakeReader(
                        [r EXCEPT !.cancel = TRUE],
                        "waitForCancel"), "bufferNotFull"), "readyReadSent")
       ELSE UNCHANGED <<d, r>>
    /\ c' = [c EXCEPT !.pc = "cl_stopWriter"]
    /\ UNCHANGED <<w, os, app, res, srv, cl>>

\* stopThreads: set the Writer's cancel and wake it.
CloseStopWriter ==
    /\ c.pc = "cl_stopWriter"
    /\ w' = IF d.writer THEN wakeWriter([w EXCEPT !.cancel = TRUE]) ELSE w
    /\ c' = [c EXCEPT !.pc = "cl_joinWriter"]
    /\ UNCHANGED <<d, r, os, app, res, srv, cl>>

\* waitAndDelete(d->writer)
CloseJoinWriter ==
    /\ c.pc = "cl_joinWriter"
    /\ d.writer => joined(w)
    /\ d' = [d EXCEPT !.writer = FALSE]
    /\ c' = [c EXCEPT !.pc = "cl_wakeReader"]
    /\ UNCHANGED <<r, w, os, app, res, srv, cl>>

\* close: if (d->reader) { LOCKED(d->reader); readyReadSentCondition.wakeAll(); }
CloseWakeReader ==
    /\ c.pc = "cl_wakeReader"
    /\ r' = IF d.reader THEN wakeReader(r, "readyReadSent") ELSE r
    /\ c' = [c EXCEPT !.pc = "cl_joinReader"]
    /\ UNCHANGED <<d, w, os, app, res, srv, cl>>

\* waitAndDelete(d->reader), ::close(d->fd), setOpenMode(NotOpen)
CloseJoinReader ==
    /\ c.pc = "cl_joinReader"
    /\ d.reader => joined(r)
    /\ d' = [d EXCEPT !.reader = FALSE, !.fdOpen = FALSE, !.open = FALSE]
    /\ c' = [c EXCEPT !.pc = "idle"]
    /\ UNCHANGED <<r, w, os, app, res, srv, cl>>

\* KDPipeIODevice::open(fd, mode) on the closed device: doOpen creates a new
\* Reader and/or Writer for the descriptor and connects readyRead.  It leaves
\* triedToStartReader and triedToStartWriter as they are.
Open ==
    /\ c.pc = "idle"
    /\ ~d.open
    /\ \E read, write \in BOOLEAN :
          /\ read \/ write
          /\ d' = [d EXCEPT !.open = TRUE, !.fdOpen = TRUE,
                            !.reader = read, !.writer = write,
                            !.connected = read]
          /\ r' = IF read THEN ReaderInit ELSE r
          /\ w' = IF write THEN WriterInit ELSE w
    /\ UNCHANGED <<c, os, app, res, srv, cl>>

(* --------------------------------------------------------------- UiServer *)

\* Number of UiServer instances (processes) that use the endpoint path.
NumServers == 3

Servers == 1..NumServers

\* An instance after UiServer(socket): Private's constructor leaves
\* actualSocketName empty; suggestedSocketName is the endpoint path.
\* `found` records what start() found at the path.
\* `connections` is the set of live connections; `stoppedEmitted` counts the
\* emissions of stopped() and `emittedBy` names the handler of the last one.
ServerNew ==
    [ pc |-> "new", listening |-> FALSE, actualSocketName |-> "",
      error |-> "", found |-> "",
      connections |-> {}, stoppedEmitted |-> 0, emittedBy |-> "" ]

\* The endpoint path: whether the socket file exists, and which instance's
\* listening socket it is bound to (0: none, the file is stale).
ServerInit ==
    [ file |-> [exists |-> FALSE, listener |-> 0],
      inst |-> [i \in Servers |-> ServerNew] ]

\* The instance with one field changed.
setInst(i, upd) == [srv EXCEPT !.inst[i] = upd]

\* makeListeningSocket: if (QFile::exists(fileName))
StartExists(i) ==
    /\ srv.inst[i].pc = "new"
    /\ srv' = setInst(i, IF srv.file.exists
                         THEN [srv.inst[i] EXCEPT !.pc = "trial"]
                         ELSE [srv.inst[i] EXCEPT !.pc = "bind",
                                                  !.found = "absent"])
    /\ UNCHANGED <<d, r, w, c, os, app, res, cl>>

\* isStaleAssuanSocket: the trial connect fails when nobody listens on the
\* socket file.
isStaleAssuanSocket(file) == ~file.exists \/ file.listener = 0

\* makeListeningSocket: if (isStaleAssuanSocket(fileName)) ... else throw
StartTrialConnect(i) ==
    /\ srv.inst[i].pc = "trial"
    /\ srv' = setInst(i, IF isStaleAssuanSocket(srv.file)
                         THEN [srv.inst[i] EXCEPT !.pc = "remove",
                                                  !.found = "stale"]
                         ELSE [srv.inst[i] EXCEPT !.pc = "failed",
                                                  !.found = "live",
                                                  !.error = "running"])
    /\ UNCHANGED <<d, r, w, c, os, app, res, cl>>

\* makeListeningSocket: QFile::remove(fileName)
StartRemove(i) ==
    /\ srv.inst[i].pc = "remove"
    /\ srv' = [setInst(i, [srv.inst[i] EXCEPT !.pc = "bind"])
                 EXCEPT !.file = [exists |-> FALSE, listener |-> 0]]
    /\ UNCHANGED <<d, r, w, c, os, app, res, cl>>

\* doMakeListeningSocket binds and listens at the path, which creates the
\* socket file; it throws when the path is taken.
doMakeListeningSocket(i) ==
    IF srv.file.exists
    THEN setInst(i, [srv.inst[i] EXCEPT !.pc = "failed", !.error = "bind"])
    ELSE [setInst(i, [srv.inst[i] EXCEPT !.pc = "bound", !.listening = TRUE])
            EXCEPT !.file = [exists |-> TRUE, listener |-> i]]

\* makeListeningSocket: doMakeListeningSocket(...); actualSocketName =
\* suggestedSocketName (not reached when doMakeListeningSocket throws).
StartBind(i) ==
    /\ srv.inst[i].pc = "bind"
    /\ LET s1 == doMakeListeningSocket(i)
       IN  srv' = IF s1.inst[i].pc = "bound"
                  THEN [s1 EXCEPT !.inst[i].pc = "started",
                                  !.inst[i].actualSocketName = "path"]
                  ELSE s1
    /\ UNCHANGED <<d, r, w, c, os, app, res, cl>>

\* The socket file after instance i's listening socket is gone.
unlisten(file, i) ==
    IF file.listener = i THEN [file EXCEPT !.listener = 0] ELSE file

\* Variant of the destructor that removes the file at suggestedSocketName.
DestroyRemovesSuggested(i) ==
    /\ srv.inst[i].pc \in {"new", "started", "failed"}
    /\ srv' = [srv EXCEPT
                 !.inst[i] = [@ EXCEPT !.pc = "destroyed", !.listening = FALSE],
                 !.file = IF srv.file.exists
                          THEN [exists |-> FALSE, listener |-> 0]
                          ELSE unlisten(srv.file, i)]
    /\ UNCHANGED <<d, r, w, c, os, app, res, cl>>

\* UiServer::~UiServer, of an instance that is not inside start():
\* if (QFile::exists(d->actualSocketName)) QFile::remove(d->actualSocketName);
\* destroying Private closes its listening socket.
Destroy(i) ==
    /\ srv.inst[i].pc \in {"new", "started", "failed"}
    /\ srv' = [srv EXCEPT
                 !.inst[i] = [@ EXCEPT !.pc = "destroyed", !.listening = FALSE],
                 !.file = IF srv.inst[i].actualSocketName # "" /\ srv.file.exists
                          THEN [exists |-> FALSE, listener |-> 0]
                          ELSE unlisten(srv.file, i)]
    /\ UNCHANGED <<d, r, w, c, os, app, res, cl>>

\* The process of a listening instance dies: no destructor runs, the socket
\* file stays behind with nobody listening on it.
Crash(i) ==
    /\ srv.inst[i].pc = "started"
    /\ srv' = [srv EXCEPT
                 !.inst[i] = [@ EXCEPT !.pc = "crashed", !.listening = FALSE],
                 !.file = unlisten(srv.file, i)]
    /\ UNCHANGED <<d, r, w, c, os, app, res, cl>>

\* Largest number of live connections of a server, and of stopped() signals
\* it emits.
MaxConns == 2

MaxStopped == 2

\* UiServer::Private::incomingConnection: the listening server accepts a
\* client; the connection joins the set.  (When the nonce check fails or the
\* constructor throws, the descriptor is closed and nothing changes.)
IncomingConnection(i) ==
    /\ srv.inst[i].listening
    /\ \E k \in 1..MaxConns \ srv.inst[i].connections :
          srv' = setInst(i, [srv.inst[i] EXCEPT !.connections = @ \cup {k}])
    /\ UNCHANGED <<d, r, w, c, os, app, res, cl>>

\* Variant of isStopped that looks at the connection set only.
isStoppedWhenIdle(s) == s.connections = {}

\* UiServer::isStopped
isStopped(s) == s.connections = {} /\ ~s.listening

\* if (isStopped()) { ...; Q_EMIT stopped(); } in the handler `by`
emitIfStopped(s, by) ==
    IF isStopped(s)
    THEN [s EXCEPT !.stoppedEmitted = @ + 1, !.emittedBy = by]
    ELSE s

\* UiServer::Private::slotConnectionClosed
ConnectionClosed(i) ==
    /\ srv.inst[i].stoppedEmitted < MaxStopped
    /\ \E k \in srv.inst[i].connections :
          srv' = setInst(i, emitIfStopped(
                     [srv.inst[i] EXCEPT !.connections = @ \ {k}],
                     "slotConnectionClosed"))
    /\ UNCHANGED <<d, r, w, c, os, app, res, cl>>

\* UiServer::stop, of an instance that is not inside start(): d->close()
\* closes the listening socket.  Nothing under src/ gives d->file a name
\* (Private's constructor leaves it empty), so d->file.exists() is false and
\* the socket file stays.  start() can be called again afterwards.
Stop(i) ==
    /\ srv.inst[i].pc \in {"new", "started", "failed"}
    /\ srv.inst[i].stoppedEmitted < MaxStopped
    /\ srv' = [srv EXCEPT
                 !.inst[i] = emitIfStopped(
                     [@ EXCEPT !.listening = FALSE,
                               !.pc = IF @ = "started" THEN "new" ELSE @],
                     "stop"),
                 !.file = unlisten(srv.file, i)]
    /\ UNCHANGED <<d, r, w, c, os, app, res, cl>>

\* Instance i is inside start().
InStart(i) == srv.inst[i].pc \in {"trial", "remove", "bind"}

(* ------------------------------------------------- client: hexencode *)

\* Longest byte string given to hexencode.
MaxHexLen == 2

\* The bytes the strings are made of: a control byte, space, the specials
\* '#' '%' '+' '=', a letter, DEL, and high-bit bytes around 0xA0.
ByteSamples == {10, 32, 35, 37, 43, 61, 65, 127, 128, 160, 161, 255}

ByteStrings == UNION {[1..n -> ByteSamples] : n \in 0..MaxHexLen}

\* static const char hex[] = "0123456789ABCDEF"
hex == <<48, 49, 50, 51, 52, 53, 54, 55, 56, 57, 65, 66, 67, 68, 69, 70>>

\* hexencode: the switch on one byte.  The default label comes first: a byte
\* that is not printable ('!'..'~') and not above 0xA0 falls through into
\* case ' ' and is emitted as '+'.
encodeByte(ch) ==
    IF ch \in {34, 35, 36, 37, 39, 43, 61}
    THEN <<37, hex[(ch \div 16) + 1], hex[(ch % 16) + 1]>>
    ELSE IF ch = 32 THEN <<43>>
    ELSE IF (ch >= 33 /\ ch <= 126) \/ ch > 160 THEN <<ch>>
    ELSE <<43>>

RECURSIVE hexencode(_)
hexencode(in) ==
    IF in = << >> THEN << >>
    ELSE encodeByte(Head(in)) \o hexencode(Tail(in))

\* The peer's decoder: the value of a hex digit.
unhex(ch) == IF ch >= 48 /\ ch <= 57 THEN ch - 48 ELSE ch - 55

\* The peer's decoder: '+' is a space, %XX is the byte XX, any other byte is
\* itself.
RECURSIVE hexdecode(_)
hexdecode(in) ==
    IF in = << >> THEN << >>
    ELSE IF Head(in) = 43 THEN <<32>> \o hexdecode(Tail(in))
    ELSE IF Head(in) = 37 /\ Len(in) >= 3
    THEN <<16 * unhex(in[2]) + unhex(in[3])>> \o hexdecode(SubSeq(in, 4, Len(in)))
    ELSE <<Head(in)>> \o hexdecode(Tail(in))

HexIdle == [pc |-> "in", in |-> << >>, enc |-> << >>, dec |-> << >>]

\* The client encodes the string for a FILE / SENDER / RECIPIENT line.
HexEncode ==
    /\ cl.hex.pc = "in"
    /\ cl' = [cl EXCEPT !.hex.pc = "encoded",
                        !.hex.enc = hexencode(cl.hex.in)]
    /\ UNCHANGED <<d, r, w, c, os, app, res, srv>>

\* The server decodes the argument of the line.
HexDecode ==
    /\ cl.hex.pc = "encoded"
    /\ cl' = [cl EXCEPT !.hex.pc = "decoded",
                        !.hex.dec = hexdecode(cl.hex.enc)]
    /\ UNCHANGED <<d, r, w, c, os, app, res, srv>>

(* --------------------------------------------------- client: Command *)

\* Longest list of file paths, of senders and of recipients.
MaxItems == 1

\* Most data lines the server sends during the main command, and most
\* inquiries it makes.
MaxData == 1

MaxInquire == 1

\* Option names, in the order of std::map<std::string, Option>.
OptionOrder == <<"a", "b">>

OptionNames == {OptionOrder[j] : j \in 1..Len(OptionOrder)}

\* Keywords the server inquires, and the payloads staged for them.
InquireNames == {"passphrase", "keyid"}

Payloads == {<< >>, <<1, 2>>}

\* The location given to setServerLocation, and what default_socket_name()
\* returns (empty when GnuPG tells neither socket nor home directory).
Locations == {"", "L"}

DefaultNames == {"", "default"}

\* What the server answers to a line: OK, ERR with the canceled code, ERR
\* with another code.
Answers == {"ok", "canceled", "err"}

\* Inputs after Command::Private's construction.  inquireData[n] is << >>
\* when nothing is staged for n, and <<payload>> otherwise.
NewInputs ==
    [ options     |-> [o \in OptionNames |-> "unset"],
      filePaths   |-> 0,
      senders     |-> 0,
      recipients  |-> 0,
      inquireData |-> [n \in InquireNames |-> << >>],
      command     |-> "",
      parentWId   |-> FALSE ]

\* Outputs(): every string and array empty.
NewOutputs ==
    [ errorString |-> "", canceled |-> FALSE, data |-> << >>,
      serverPid |-> 0, serverLocation |-> "" ]

\* A Command after construction.  inputs and outputs are guarded by the
\* mutex; in, out, idx belong to run(); sent and inquired record what went
\* over the connection during the current run, nData counts the server's
\* data lines; defaultName is the value default_socket_name() keeps.
CommandNew ==
    [ pc |-> "idle", inputs |-> NewInputs, outputs |-> NewOutputs,
      in |-> NewInputs, out |-> NewOutputs, idx |-> 0,
      sent |-> << >>, inquired |-> << >>, nData |-> 0,
      defaultName |-> "default" ]

ClientInit == [hex |-> HexIdle, cmd |-> CommandNew]

\* The caller sets up the Command while its thread does not run.
Idle == cl.cmd.pc = "idle"

setInputs(in) ==
    /\ cl' = [cl EXCEPT !.cmd.inputs = in]
    /\ UNCHANGED <<d, r, w, c, os, app, res, srv>>

\* Command::setOption / setOptionValue
SetOption ==
    /\ Idle
    /\ \E o \in OptionNames, critical \in BOOLEAN :
          setInputs([cl.cmd.inputs EXCEPT
                       !.options[o] = IF critical THEN "critical" ELSE "set"])

\* Command::unsetOption
UnsetOption ==
    /\ Idle
    /\ \E o \in OptionNames :
          setInputs([cl.cmd.inputs EXCEPT !.options[o] = "unset"])

\* Command::setFilePaths
SetFilePaths ==
    /\ Idle
    /\ \E n \in 0..MaxItems : setInputs([cl.cmd.inputs EXCEPT !.filePaths = n])

\* Command::setSenders
SetSenders ==
    /\ Idle
    /\ \E n \in 0..MaxItems : setInputs([cl.cmd.inputs EXCEPT !.senders = n])

\* Command::setRecipients
SetRecipients ==
    /\ Idle
    /\ \E n \in 0..MaxItems :
          setInputs([cl.cmd.inputs EXCEPT !.recipients = n])

\* Command::setInquireData; the caller stages data for "passphrase" only.
SetInquireData ==
    /\ Idle
    /\ \E v \in Payloads :
          setInputs([cl.cmd.inputs EXCEPT !.inquireData["passphrase"] = <<v>>])

\* Command::unsetInquireData, at any time: it takes the mutex only.
UnsetInquireData ==
    /\ cl.cmd.inputs.inquireData["passphrase"] # << >>
    /\ setInputs([cl.cmd.inputs EXCEPT !.inquireData["passphrase"] = << >>])

\* Command::setCommand
SetCommand ==
    /\ Idle
    /\ \E v \in {"", "VERB"} : setInputs([cl.cmd.inputs EXCEPT !.command = v])

\* Command::setParentWId
SetParentWId ==
    /\ Idle
    /\ \E v \in BOOLEAN : setInputs([cl.cmd.inputs EXCEPT !.parentWId = v])

\* Command::setServerLocation: the location is kept in outputs.
SetServerLocation ==
    /\ Idle
    /\ \E l \in Locations : cl' = [cl EXCEPT !.cmd.outputs.serverLocation = l]
    /\ UNCHANGED <<d, r, w, c, os, app, res, srv>>

\* Command::start: QThread::start, which does nothing while the thread runs.
Start ==
    /\ Idle
    /\ cl' = [cl EXCEPT !.cmd.pc = "snapshot"]
    /\ UNCHANGED <<d, r, w, c, os, app, res, srv>>


\* The lines run() sends after GETINFO pid, in its order: the window-id
\* option, the options, FILE, SENDER and RECIPIENT lines, the command.
Line(kind, arg) == [kind |-> kind, arg |-> arg]

\* A line that was sent, with the server's answer (err of run()).
Sent(line, answer) == [kind |-> line.kind, arg |-> line.arg, err |-> answer]

\* Variant: the SENDER lines go out before the FILE lines.
StepsSendersFirst(in) ==
    (IF in.parentWId THEN <<Line("WINDOW-ID", 0)>> ELSE << >>)
    \o [j \in 1..Cardinality({k \in 1..Len(OptionOrder) :
                               in.options[OptionOrder[k]] # "unset"}) |->
          Line("OPTION",
               CHOOSE k \in 1..Len(OptionOrder) :
                 /\ in.options[OptionOrder[k]] # "unset"
                 /\ Cardinality({m \in 1..k :
                                  in.options[OptionOrder[m]] # "unset"}) = j)]
    \o [j \in 1..in.senders |-> Line("SENDER", j)]
    \o [j \in 1..in.filePaths |-> Line("FILE", j)]
    \o [j \in 1..in.recipients |-> Line("RECIPIENT", j)]
    \o <<Line("COMMAND", 0)>>

Steps(in) ==
    (IF in.parentWId THEN <<Line("WINDOW-ID", 0)>> ELSE << >>)
    \o [j \in 1..Cardinality({k \in 1..Len(OptionOrder) :
                               in.options[OptionOrder[k]] # "unset"}) |->
          Line("OPTION",
               CHOOSE k \in 1..Len(OptionOrder) :
                 /\ in.options[OptionOrder[k]] # "unset"
                 /\ Cardinality({m \in 1..k :
                                  in.options[OptionOrder[m]] # "unset"}) = j)]
    \o [j \in 1..in.filePaths |-> Line("FILE", j)]
    \o [j \in 1..in.senders |-> Line("SENDER", j)]
    \o [j \in 1..in.recipients |-> Line("RECIPIENT", j)]
    \o <<Line("COMMAND", 0)>>

\* goto leave with an error string.
leaveWith(cmd, text) ==
    [cmd EXCEPT !.out.errorString = text, !.pc = "publish"]

\* run: snapshot of the inputs and clearing of the outputs under the mutex,
\* then the resolution of the socket name.
RunSnapshot ==
    /\ cl.cmd.pc = "snapshot"
    /\ LET out0 == [NewOutputs EXCEPT !.canceled = FALSE]
           out1 == IF out0.serverLocation = ""
                   THEN [out0 EXCEPT !.serverLocation = cl.cmd.defaultName]
                   ELSE out0
           cmd1 == [cl.cmd EXCEPT !.in = cl.cmd.inputs,
                                  !.outputs = NewOutputs,
                                  !.out = out1,
                                  !.pc = "connect"]
       IN  cl' = [cl EXCEPT !.cmd =
                     IF out1.serverLocation = ""
                     THEN leaveWith(cmd1, "Invalid socket name!")
                     ELSE cmd1]
    /\ UNCHANGED <<d, r, w, c, os, app, res, srv>>

\* run: assuan_new, assuan_socket_connect, and on failure start_uiserver and
\* the retries.
Connect ==
    /\ cl.cmd.pc = "connect"
    /\ \E o \in {"ok", "alloc", "spawn", "refused"} :
          LET tried == [cl.cmd EXCEPT
                          !.sent = Append(@, Sent(Line("CONNECT", 0), o))]
          IN  cl' = [cl EXCEPT !.cmd =
                CASE o = "alloc" ->
                       leaveWith(cl.cmd, "Could not allocate resources")
                  [] o = "spawn" -> leaveWith(tried, "Failed to start uiserver")
                  [] o = "refused" -> leaveWith(tried, "Could not connect")
                  [] OTHER -> [tried EXCEPT !.pc = "pid"]]
    /\ UNCHANGED <<d, r, w, c, os, app, res, srv>>

\* run: GETINFO pid; then "if (in.command.isEmpty()) goto leave".
GetPid ==
    /\ cl.cmd.pc = "pid"
    /\ \E err \in BOOLEAN, pid \in {-1, 0, 4711} :
          /\ err => pid = -1
          /\ LET asked == [cl.cmd EXCEPT
                             !.sent = Append(@, Sent(Line("GETINFO", 0),
                                                     IF err THEN "err"
                                                     ELSE "ok")),
                             !.out.serverPid = pid]
             IN  cl' = [cl EXCEPT !.cmd =
                   IF err \/ pid <= 0
                   THEN leaveWith(asked, "Could not get the process-id")
                   ELSE IF asked.in.command = ""
                   THEN [asked EXCEPT !.pc = "publish"]
                   ELSE [asked EXCEPT !.pc = "send", !.idx = 1]]
    /\ UNCHANGED <<d, r, w, c, os, app, res, srv>>

\* What run() does with the server's answer to the line `step`.
\* Variant: every rejected option ends the run, critical or not.
answeredAllFatal(cmd, step, answer) ==
    LET next == [cmd EXCEPT !.idx = @ + 1]
    IN  CASE step.kind = "WINDOW-ID" -> next
          [] step.kind = "OPTION" ->
               IF answer # "ok"
               THEN leaveWith(cmd, "Failed to send critical option")
               ELSE next
          [] step.kind = "FILE" ->
               IF answer # "ok"
               THEN leaveWith(cmd, "Failed to send file path") ELSE next
          [] step.kind = "SENDER" ->
               IF answer # "ok"
               THEN leaveWith(cmd, "Failed to send sender") ELSE next
          [] OTHER ->
               IF answer # "ok"
               THEN leaveWith(cmd, "Failed to send recipient") ELSE next

answered(cmd, step, answer) ==
    LET next == [cmd EXCEPT !.idx = @ + 1]
    IN  CASE step.kind = "WINDOW-ID" -> next
          [] step.kind = "OPTION" ->
               IF answer # "ok"
                    /\ cmd.in.options[OptionOrder[step.arg]] = "critical"
               THEN leaveWith(cmd, "Failed to send critical option")
               ELSE next
          [] step.kind = "FILE" ->
               IF answer # "ok"
               THEN leaveWith(cmd, "Failed to send file path") ELSE next
          [] step.kind = "SENDER" ->
               IF answer # "ok"
               THEN leaveWith(cmd, "Failed to send sender") ELSE next
          [] OTHER ->
               IF answer # "ok"
               THEN leaveWith(cmd, "Failed to send recipient") ELSE next

\* run: send_option, send_file, send_sender, send_recipient
SendLine ==
    /\ cl.cmd.pc = "send"
    /\ LET step == Steps(cl.cmd.in)[cl.cmd.idx]
       IN  /\ step.kind # "COMMAND"
           /\ \E answer \in Answers :
                 cl' = [cl EXCEPT !.cmd =
                          answered([cl.cmd EXCEPT
                                      !.sent = Append(@, Sent(step, answer))],
                                   step, answer)]
    /\ UNCHANGED <<d, r, w, c, os, app, res, srv>>

\* run: my_assuan_transact(ctx, in.command, ...) sends the command line.
SendCommand ==
    /\ cl.cmd.pc = "send"
    /\ LET step == Steps(cl.cmd.in)[cl.cmd.idx]
       IN  /\ step.kind = "COMMAND"
           /\ cl' = [cl EXCEPT !.cmd.sent = Append(@, Sent(step, "")),
                               !.cmd.pc = "transact"]
    /\ UNCHANGED <<d, r, w, c, os, app, res, srv>>

\* command_data_cb: the server sends a data line.
\* Variant: the data callback writes into the outputs the getters read.
ServerDataUnlocked ==
    /\ cl.cmd.pc = "transact"
    /\ cl.cmd.nData < MaxData
    /\ cl' = [cl EXCEPT !.cmd.nData = @ + 1,
                        !.cmd.out.data = Append(@, cl.cmd.nData + 1),
                        !.cmd.outputs.data = Append(@, cl.cmd.nData + 1)]
    /\ UNCHANGED <<d, r, w, c, os, app, res, srv>>

ServerData ==
    /\ cl.cmd.pc = "transact"
    /\ cl.cmd.nData < MaxData
    /\ cl' = [cl EXCEPT !.cmd.nData = @ + 1,
                        !.cmd.out.data = Append(@, cl.cmd.nData + 1)]
    /\ UNCHANGED <<d, r, w, c, os, app, res, srv>>

\* command_inquire_cb: what the client sends for INQUIRE `what`: the staged
\* bytes through assuan_send_data, or nothing; it returns 0 either way.
\* Variant: the callback answers every inquiry with the passphrase.
inquireAnyStaged(map, what) ==
    [what |-> what, reply |-> map["passphrase"], err |-> 0]

command_inquire_cb(map, what) ==
    [what |-> what, reply |-> map[what], err |-> 0]

\* The server inquires during the main command.
ServerInquire ==
    /\ cl.cmd.pc = "transact"
    /\ Len(cl.cmd.inquired) < MaxInquire
    /\ \E what \in InquireNames :
          cl' = [cl EXCEPT !.cmd.inquired =
                   Append(@, command_inquire_cb(cl.cmd.in.inquireData, what))]
    /\ UNCHANGED <<d, r, w, c, os, app, res, srv>>

\* run: the result of the main command.
\* Variant: a canceled command is recorded as an error as well.
ServerDoneCancelIsError ==
    /\ cl.cmd.pc = "transact"
    /\ \E answer \in Answers :
          LET done == [cl.cmd EXCEPT !.sent[Len(cl.cmd.sent)].err = answer]
          IN  cl' = [cl EXCEPT !.cmd =
                CASE answer = "ok" -> [done EXCEPT !.pc = "publish"]
                  [] answer = "canceled" ->
                       leaveWith([done EXCEPT !.out.canceled = TRUE],
                                 "Command failed")
                  [] OTHER -> leaveWith(done, "Command failed")]
    /\ UNCHANGED <<d, r, w, c, os, app, res, srv>>

ServerDone ==
    /\ cl.cmd.pc = "transact"
    /\ \E answer \in Answers :
          LET done == [cl.cmd EXCEPT !.sent[Len(cl.cmd.sent)].err = answer]
          IN  cl' = [cl EXCEPT !.cmd =
                CASE answer = "ok" -> [done EXCEPT !.pc = "publish"]
                  [] answer = "canceled" ->
                       [done EXCEPT !.out.canceled = TRUE, !.pc = "publish"]
                  [] OTHER -> leaveWith(done, "Command failed")]
    /\ UNCHANGED <<d, r, w, c, os, app, res, srv>>

\* run, leave: outputs = out under the mutex; run() returns and its locals
\* are gone.
Publish ==
    /\ cl.cmd.pc = "publish"
    /\ cl' = [cl EXCEPT !.cmd = [CommandNew EXCEPT
                                   !.inputs = cl.cmd.inputs,
                                   !.defaultName = cl.cmd.defaultName,
                                   !.outputs = cl.cmd.out]]
    /\ UNCHANGED <<d, r, w, c, os, app, res, srv>>

(* -------------------------------------------------------- specifications *)

\* The device after KDPipeIODevice(fd, mode): doOpen has created the Reader
\* and/or the Writer; no thread runs yet.  The peer has `stream` bytes to send
\* before it stops, the consumer has `source` bytes to write.
DeviceInit(read, write, stream, source) ==
    /\ d = [ open |-> TRUE, fdOpen |-> TRUE, reader |-> read, writer |-> write,
             triedToStartReader |-> FALSE, triedToStartWriter |-> FALSE,
             connected |-> read, queued |-> 0 ]
    /\ r = ReaderInit
    /\ w = WriterInit
    /\ c = ConsumerInit
    /\ os = [stream |-> stream, delivered |-> 0, written |-> << >>]
    /\ app = [source |-> source, out |-> << >>, accepted |-> 0]
    /\ res = NoResult


\* A device opened ReadOnly.
InitRead ==
    DeviceInit(TRUE, FALSE, MaxStream, 0) /\ srv = ServerInit /\ cl = ClientInit

NextRead ==
    \/ StartReaderThread \/ HasStarted
    \/ ReaderStart \/ ReaderWake \/ ReaderRead
    \/ ReadData \/ ReadPeek \/ ReadLocked \/ ReadWoken
    \/ AtEnd \/ AtEndLocked \/ ReadWouldBlock \/ EmitReadyRead \/ Return
    \/ Close \/ CloseStopReader \/ CloseStopWriter
    \/ CloseJoinWriter \/ CloseWakeReader \/ CloseJoinReader

SpecRead == InitRead /\ [][NextRead]_vars

\* A device opened WriteOnly.
InitWrite ==
    DeviceInit(FALSE, TRUE, 0, MaxSource) /\ srv = ServerInit /\ cl = ClientInit

NextWrite ==
    \/ StartWriterThread \/ HasStarted
    \/ WriterStart \/ WriterWake \/ WriterWrite
    \/ WriteData \/ WriteWoken
    \/ WaitForBytesWritten \/ WaitForBytesWrittenReturn \/ Return
    \/ Close \/ CloseWaitForBytesWritten \/ CloseWoken
    \/ CloseStopReader \/ CloseStopWriter
    \/ CloseJoinWriter \/ CloseWakeReader \/ CloseJoinReader

SpecWrite == InitWrite /\ [][NextWrite]_vars

\* A device opened ReadWrite: both workers share the descriptor.  The peer
\* sends one buffer full of data, the consumer has one byte to write.
InitDuplex ==
    DeviceInit(TRUE, TRUE, BUFFER_SIZE, 1) /\ srv = ServerInit /\ cl = ClientInit

NextDuplex ==
    \/ StartReaderThread \/ StartWriterThread \/ HasStarted
    \/ ReaderStart \/ ReaderWake \/ ReaderRead
    \/ WriterStart \/ WriterWake \/ WriterWrite
    \/ ReadData \/ ReadPeek \/ ReadLocked \/ ReadWoken
    \/ WriteData \/ WriteWoken
    \/ EmitReadyRead \/ Return
    \/ Close \/ CloseWaitForBytesWritten \/ CloseWoken
    \/ CloseStopReader \/ CloseStopWriter
    \/ CloseJoinWriter \/ CloseWakeReader \/ CloseJoinReader

SpecDuplex == InitDuplex /\ [][NextDuplex]_vars

\* The scheduler runs every runnable thread eventually: the workers' critical
\* sections and the consumer's close().  Nothing makes the peer send data or
\* take data, so the OS calls themselves carry no fairness.
SpecDuplexLive ==
    /\ SpecDuplex
    /\ WF_vars(ReaderStart \/ ReaderWake)
    /\ WF_vars(WriterStart \/ WriterWake)
    /\ WF_vars(CloseStopReader \/ CloseStopWriter
                 \/ CloseJoinWriter \/ CloseWakeReader \/ CloseJoinReader)

\* A device opened ReadOnly that is never closed, with a consumer that keeps
\* calling read() and running its event loop, a scheduler that runs every
\* runnable thread, and an OS read that returns in the end (with data, end of
\* file or an error).
NextReadOpen ==
    \/ StartReaderThread \/ HasStarted
    \/ ReaderStart \/ ReaderWake \/ ReaderRead
    \/ ReadData \/ ReadPeek \/ ReadLocked \/ ReadWoken
    \/ EmitReadyRead \/ Return

SpecReadLive ==
    /\ InitRead /\ [][NextReadOpen]_vars
    /\ WF_vars(ReaderStart \/ ReaderWake)
    /\ WF_vars(ReaderRead)
    /\ WF_vars(StartReaderThread \/ HasStarted \/ ReadPeek \/ ReadLocked
                 \/ ReadWoken \/ Return)
    /\ SF_vars(ReadData)
    /\ SF_vars(EmitReadyRead)

\* A device opened ReadOnly whose consumer also calls waitForReadyRead().
NextReadWait ==
    \/ NextRead
    \/ WaitForReadyRead \/ WaitForReadyReadLocked \/ WaitForReadyReadReturn

SpecReadWait == InitRead /\ [][NextReadWait]_vars

\* A device that is opened again after close(), in any mode, on a descriptor
\* of the same peer.
NextReopen == NextDuplex \/ Open

SpecReopen == InitDuplex /\ [][NextReopen]_vars

\* UiServer instances whose start() calls do not overlap: an instance takes a
\* step only while no other instance is inside start().  The device is not
\* used.
InitServer ==
    DeviceInit(FALSE, FALSE, 0, 0) /\ srv = ServerInit /\ cl = ClientInit

NoOtherInStart(i) == \A j \in Servers \ {i} : ~InStart(j)

NextServer ==
    \/ \E i \in Servers : NoOtherInStart(i) /\ StartExists(i)
    \/ \E i \in Servers : NoOtherInStart(i) /\ StartTrialConnect(i)
    \/ \E i \in Servers : NoOtherInStart(i) /\ StartRemove(i)
    \/ \E i \in Servers : NoOtherInStart(i) /\ StartBind(i)
    \/ \E i \in Servers : NoOtherInStart(i) /\ Destroy(i)
    \/ \E i \in Servers : NoOtherInStart(i) /\ Crash(i)

SpecServer == InitServer /\ [][NextServer]_vars

\* UiServer instances (processes) that run start() concurrently: the steps of
\* makeListeningSocket of different instances interleave freely.
NextServerRace ==
    \/ \E i \in Servers : StartExists(i)
    \/ \E i \in Servers : StartTrialConnect(i)
    \/ \E i \in Servers : StartRemove(i)
    \/ \E i \in Servers : StartBind(i)
    \/ \E i \in Servers : Destroy(i)
    \/ \E i \in Servers : Crash(i)

SpecServerRace == InitServer /\ [][NextServerRace]_vars

\* One UiServer with its connections: start(), accepted connections,
\* connection-closed events and stop(), all on the server's event loop.
TheServer == 1

NextServerConn ==
    \/ StartExists(TheServer) \/ StartTrialConnect(TheServer)
    \/ StartRemove(TheServer) \/ StartBind(TheServer)
    \/ IncomingConnection(TheServer)
    \/ ConnectionClosed(TheServer)
    \/ Stop(TheServer)

SpecServerConn == InitServer /\ [][NextServerConn]_vars

\* hexencode applied to every byte string over the sample bytes, and the
\* peer's decoder applied to the result.
InitHex ==
    /\ DeviceInit(FALSE, FALSE, 0, 0) /\ srv = ServerInit
    /\ \E in \in ByteStrings : cl = [ClientInit EXCEPT !.hex.in = in]

NextHex == HexEncode \/ HexDecode

SpecHex == InitHex /\ [][NextHex]_vars

\* A client Command: the caller's setters and start(), and the worker's run().
InitCommand ==
    /\ DeviceInit(FALSE, FALSE, 0, 0) /\ srv = ServerInit
    /\ \E dn \in DefaultNames : cl = [ClientInit EXCEPT !.cmd.defaultName = dn]

NextCommand ==
    \/ SetOption \/ UnsetOption \/ SetFilePaths \/ SetSenders \/ SetRecipients
    \/ SetInquireData \/ UnsetInquireData \/ SetCommand \/ SetParentWId
    \/ SetServerLocation \/ Start
    \/ RunSnapshot \/ Connect \/ GetPid \/ SendLine \/ SendCommand
    \/ ServerData \/ ServerInquire \/ ServerDone \/ Publish

SpecCommand == InitCommand /\ [][NextCommand]_vars

(* ----------------------------------------------------------------- claims *)

\* Steps at which a call of the consumer returns.
ReadReturns ==
    c.pc \in {"idle", "rd_lock", "rd_wait"} /\ c'.pc = "returned"
        /\ res'.op = "read"

AtEndReturns ==
    c.pc \in {"idle", "ae_lock"} /\ c'.pc = "returned" /\ res'.op = "atEnd"

ReadWouldBlockReturns ==
    c.pc = "idle" /\ c'.pc = "returned" /\ res'.op = "readWouldBlock"

WriteReturns ==
    c.pc \in {"idle", "wr_wait"} /\ c'.pc = "returned" /\ res'.op = "write"

WaitForBytesWrittenReturns ==
    c.pc \in {"idle", "wfbw_wait"} /\ c'.pc = "returned"
        /\ res'.op = "waitForBytesWritten"

\* C1: FIFO law of the read path.  In every state the bytes read() has
\* returned so far, followed by the unread bytes of the ring buffer, are
\* exactly the bytes the OS has delivered, in order: what the consumer got is
\* a prefix of the delivered stream, nothing is lost, duplicated or reordered,
\* and once the buffer is drained the two are equal.
C1_Fifo == app.out \o Buffered(r) = Bytes(0, os.delivered)

\* The whole stream, longer than the ring buffer, has been read to the end.
C1_Witness ==
    /\ r.eof /\ bufferEmpty(r)
    /\ Len(app.out) = MaxStream /\ MaxStream > BUFFER_SIZE

\* C2 as claimed: with b > 0 bytes buffered, read(buf, n) returns min(n, b),
\* b being the bytes buffered when the data is copied or, at the least, the
\* bytes buffered that the call saw when it started.
C2_Original ==
    [][ (ReadReturns /\ c.pc = "rd_lock" /\ bytesInBuffer(r) > 0)
          => res'.ret \in {Min(c.n, bytesInBuffer(r)), c.maxSize} ]_vars

\* C2 as amended: with b > 0 bytes buffered, read(buf, n) returns without
\* blocking; it returns min(m, k), where m is n capped by the bytesAvailable()
\* seen at the start of the call and k is the length of the unread run that
\* ends at the physical end of the array (b when the bytes do not wrap);
\* the result is at most min(n, b) and at least 1 when n >= 1.
C2_ShortRead ==
    [][ (c.pc = "rd_lock" /\ c'.pc # "rd_lock" /\ bytesInBuffer(r) > 0)
          => /\ ReadReturns
             /\ res'.n = c.n
             /\ res'.ret = Min(c.maxSize,
                               IF r.rptr < r.wptr THEN bytesInBuffer(r)
                               ELSE SizeofBuffer - r.rptr)
             /\ res'.ret <= Min(c.n, bytesInBuffer(r))
             /\ (c.n >= 1 => res'.ret >= 1) ]_vars

\* With the buffer full, its bytes wrapping around the end of the array, and
\* the Reader asleep on it, a read of n bytes returned fewer: the bytes up to
\* the physical end of the array.  The wrapped bytes are still buffered.
C2_Witness ==
    /\ c.pc = "returned" /\ res.op = "read"
    /\ res.ret >= 1 /\ res.ret < res.n
    /\ r.site = "C" /\ r.pc \in {"bufferNotFull", "readyReadSent"}
    /\ bytesInBuffer(r) + res.ret = BUFFER_SIZE
    /\ r.rptr = 0 /\ r.wptr > 0

\* C3: Eof and Error are latched.  No step clears either flag, and in no state
\* in which one is set is the Reader inside an OS read or does the OS deliver
\* anything more.
C3_Latched ==
    [][ /\ r.eof => r'.eof
        /\ r.error => r'.error
        /\ (r'.eof \/ r'.error) => r'.pc # "read"
        /\ (r.eof \/ r.error) => os'.delivered = os.delivered ]_vars

\* After an OS read that ended the stream, with data read before, the Reader
\* waits for cancellation.
C3_Witness ==
    (r.eof \/ r.error) /\ r.pc = "waitForCancel" /\ Len(app.out) > 0

\* C4: atEnd() returns true if and only if (Eof or Error is latched) and the
\* ring buffer is empty; in the would-block state (buffer empty, neither
\* latched) it returns false and readWouldBlock() returns true.
C4_AtEnd ==
    [][ /\ AtEndReturns
          => (res'.ok <=> ((r.eof \/ r.error) /\ bufferEmpty(r)))
        /\ ReadWouldBlockReturns
          => (res'.ok <=> (bufferEmpty(r) /\ ~r.eof /\ ~r.error)) ]_vars

\* atEnd() has returned true after an error, with every buffered byte drained.
C4_Witness ==
    /\ c.pc = "returned" /\ res.op = "atEnd" /\ res.ok
    /\ r.error /\ Len(app.out) > 0

\* C5 as claimed: with Error latched and the ring buffer empty, every read()
\* of one byte or more returns -1, the first and every later one.
C5_Claim ==
    [][ (ReadReturns /\ r.error /\ bufferEmpty(r) /\ res'.n >= 1)
          => res'.ret = -1 ]_vars

\* The unwritten part of the staging slot.
Unwritten(ww) ==
    IF ww.pc = "write"
    THEN SubSeq(ww.buffer, ww.totalWritten + 1, ww.numBytesInBuffer)
    ELSE SubSeq(ww.buffer, 1, ww.numBytesInBuffer)

\* C6: without an OS error, write(buf, n) accepts and returns min(n, C), so a
\* write of more than C bytes returns C and the write of the rest returns its
\* count; the bytes handed to the OS followed by the unwritten part of the slot
\* are the accepted bytes in order.
C6_Split ==
    /\ [](~w.error => os.written \o Unwritten(w) = Bytes(0, app.accepted))
    /\ [][ (WriteReturns /\ ~w.error)
             => /\ res'.ret = Min(res'.n, BUFFER_SIZE)
                /\ app'.accepted = app.accepted + res'.ret ]_vars

\* All the consumer's bytes, more than one slot, have reached the OS.
C6_Witness ==
    /\ ~w.error /\ MaxSource > BUFFER_SIZE
    /\ os.written = Bytes(0, MaxSource)

\* C7 as claimed: once the Writer has latched Error, every write() returns -1
\* and every waitForBytesWritten() returns false.
C7_Claim ==
    [][ w.error
          => /\ WriteReturns => res'.ret = -1
             /\ WaitForBytesWrittenReturns => ~res'.ok ]_vars

\* The write half of C7, which the code keeps.
C7_WriteFails ==
    [][ (w.error /\ WriteReturns) => res'.ret = -1 ]_vars

\* close() is about to set the cancel flags while the Reader sleeps on a full
\* buffer and the Writer sleeps waiting for a write.
ReaderAsleepOnFull ==
    /\ bufferFull(r)
    /\ \/ r.pc = "bufferNotFull"
       \/ r.pc = "readyReadSent" /\ r.site = "C"

WriterAsleep == w.pc = "bufferNotEmpty" /\ writerBufferEmpty(w)

C8_Case ==
    /\ c.pc = "cl_stopReader"
    /\ ReaderAsleepOnFull \/ r.pc \in {"notStarted", "finished"}
    /\ WriterAsleep \/ w.pc \in {"notStarted", "finished"}
    /\ ReaderAsleepOnFull \/ WriterAsleep

\* C8: cancellation has no missed wake-up.  When close() sets cancel while the
\* Reader sleeps on a full buffer and/or the Writer sleeps waiting for a write,
\* both workers finish and close() returns.
C8_Cancel ==
    C8_Case ~> (~d.open /\ joined(r) /\ joined(w) /\ c.pc = "idle")

\* close() has been called with both workers asleep: the Reader on the buffer
\* it has filled, the Writer after it has flushed a write.
C8_Witness ==
    /\ C8_Case /\ ReaderAsleepOnFull /\ WriterAsleep
    /\ os.delivered = BUFFER_SIZE /\ Len(os.written) > 0

\* C9: when close() has released the descriptor both workers have terminated,
\* so no OS read or write is in progress then or starts later.
C9_JoinBeforeClose ==
    ~d.fdOpen => (r.pc \in {"notStarted", "finished"}
                    /\ w.pc \in {"notStarted", "finished"})

\* The descriptor is released after both workers did I/O on it.
C9_Witness ==
    /\ ~d.fdOpen /\ r.pc = "finished" /\ w.pc = "finished"
    /\ os.delivered > 0 /\ Len(os.written) > 0

\* Instance i takes the step of start() that leaves pc `from`.
StartStep(i, from) == srv.inst[i].pc = from /\ srv'.inst[i].pc # from

NoneDestroyed == \A i \in Servers : srv.inst[i].pc # "destroyed"

\* C11 as claimed: with start() calls of several instances running
\* concurrently for the same path, at most one instance is listening in any
\* state, and no instance removes the socket file while it is the file of an
\* instance that is listening.
C11_Claim ==
    /\ [](NoneDestroyed
            => Cardinality({i \in Servers : srv.inst[i].listening}) <= 1)
    /\ [][ \A i \in Servers :
             (NoneDestroyed /\ StartStep(i, "remove"))
                 => srv.file.listener = 0 ]_vars

\* Steps of the server's handlers, and the emission of stopped().
EmitsStopped(i) == srv'.inst[i].stoppedEmitted # srv.inst[i].stoppedEmitted

StopStep(i) ==
    /\ srv'.inst[i].connections = srv.inst[i].connections
    /\ \/ srv.inst[i].listening /\ ~srv'.inst[i].listening
       \/ EmitsStopped(i)

ConnectionClosedStep(i) ==
    /\ srv'.inst[i].connections # srv.inst[i].connections
    /\ srv'.inst[i].connections \subseteq srv.inst[i].connections

\* C12: stopped() is emitted only in a state in which the connection set is
\* empty and the listening socket is closed.  stop() with live connections
\* does not emit it and leaves the connections in the set; a connection that
\* closes while the server listens does not emit it; after stop(), the close
\* of the last live connection emits it.
C12_Stopped ==
    [][ \A i \in Servers :
          /\ EmitsStopped(i)
               => /\ srv'.inst[i].connections = {}
                  /\ ~srv'.inst[i].listening
                  /\ srv'.inst[i].stoppedEmitted = srv.inst[i].stoppedEmitted + 1
          /\ (StopStep(i) /\ srv.inst[i].connections # {})
               => ~EmitsStopped(i) /\ ~srv'.inst[i].listening
          /\ (ConnectionClosedStep(i) /\ srv.inst[i].listening)
               => ~EmitsStopped(i)
          /\ (ConnectionClosedStep(i) /\ ~srv.inst[i].listening
                /\ srv'.inst[i].connections = {})
               => EmitsStopped(i) ]_vars

\* The server was started and then stopped while it had live connections;
\* stopped() was emitted once, by the close of the last of them.
C12_Witness ==
    /\ srv.inst[TheServer].actualSocketName = "path"
    /\ ~srv.inst[TheServer].listening
    /\ srv.inst[TheServer].connections = {}
    /\ srv.inst[TheServer].stoppedEmitted = 1
    /\ srv.inst[TheServer].emittedBy = "slotConnectionClosed"

\* C13 as claimed: hexencode round-trips.  For every byte string, decoding
\* hexencode(s) with the peer's decoder yields s byte for byte, and '+' stands
\* for a space only: the encoded string has as many '+' as s has spaces.
C13_Claim ==
    /\ cl.hex.pc = "decoded" => cl.hex.dec = cl.hex.in
    /\ cl.hex.pc # "in"
         => Cardinality({i \in 1..Len(cl.hex.enc) : cl.hex.enc[i] = 43})
              = Cardinality({i \in 1..Len(cl.hex.in) : cl.hex.in[i] = 32})

\* The run of the Command: what it has sent, and how the lines fared.
Running == cl.cmd.pc \in {"connect", "pid", "send", "transact", "publish"}

IsCritical(line) ==
    line.kind = "OPTION" /\ cl.cmd.in.options[OptionOrder[line.arg]] = "critical"

\* A failure that ends the exchange: connect, the pid query, a critical
\* option, any FILE / SENDER / RECIPIENT line, the main command.
Fatal(j) ==
    LET line == cl.cmd.sent[j]
    IN  \/ line.kind = "CONNECT" /\ line.err # "ok"
        \/ line.kind = "GETINFO" /\ (line.err # "ok" \/ cl.cmd.out.serverPid <= 0)
        \/ IsCritical(line) /\ line.err # "ok"
        \/ line.kind \in {"FILE", "SENDER", "RECIPIENT"} /\ line.err # "ok"
        \/ line.kind = "COMMAND" /\ line.err = "err"

Success(o) == o.errorString = "" /\ ~o.canceled

\* C14: a rejected OPTION is fatal if and only if the option is critical.  A
\* rejected critical option is the last line sent, and the run ends with an
\* error string.  A rejected option that is not critical leaves the result
\* untouched and the run goes on: when the run ends and nothing else has
\* failed (the server gave its pid, and every other line was accepted), every
\* line including the command has been sent and the result is success with
\* an empty error string.
C14_CriticalOption ==
    /\ \A j \in 1..Len(cl.cmd.sent) :
          (IsCritical(cl.cmd.sent[j]) /\ cl.cmd.sent[j].err # "ok")
             => /\ j = Len(cl.cmd.sent)
                /\ cl.cmd.pc = "publish"
                /\ cl.cmd.out.errorString # ""
    /\ cl.cmd.pc \in {"send", "transact"} => Success(cl.cmd.out)
    /\ (/\ cl.cmd.pc = "publish"
        /\ cl.cmd.in.command # ""
        /\ Len(cl.cmd.sent) >= 2
        /\ cl.cmd.out.serverPid > 0
        /\ \A j \in 1..Len(cl.cmd.sent) :
              \/ cl.cmd.sent[j].err = "ok"
              \/ cl.cmd.sent[j].kind = "OPTION" /\ ~IsCritical(cl.cmd.sent[j])
              \/ cl.cmd.sent[j].kind = "WINDOW-ID")
         => /\ Success(cl.cmd.out)
            /\ Len(cl.cmd.sent) = 2 + Len(Steps(cl.cmd.in))
            /\ cl.cmd.sent[Len(cl.cmd.sent)].kind = "COMMAND"

\* The server rejected an option that is not critical; the FILE line and the
\* command were sent after it and the run ends in success.
C14_Witness ==
    /\ cl.cmd.pc = "publish" /\ Success(cl.cmd.out)
    /\ \E j \in 1..Len(cl.cmd.sent) :
          /\ cl.cmd.sent[j].kind = "OPTION" /\ cl.cmd.sent[j].err = "err"
          /\ j + 2 = Len(cl.cmd.sent)
          /\ cl.cmd.sent[j + 1].kind = "FILE"
          /\ cl.cmd.sent[j + 2].kind = "COMMAND"

\* C15: for INQUIRE <name> during the main command the client sends exactly
\* the payload staged under <name> in the input snapshot; with nothing staged
\* it sends no data; in both cases the callback returns 0 and the exchange
\* goes on without an error.
C15_Inquire ==
    \A j \in 1..Len(cl.cmd.inquired) :
       LET q == cl.cmd.inquired[j]
       IN  /\ q.reply = cl.cmd.in.inquireData[q.what]
           /\ q.what # "passphrase" => q.reply = << >>
           /\ q.err = 0
           /\ cl.cmd.pc = "transact" => Success(cl.cmd.out)

\* The server inquired the passphrase and got the bytes staged before
\* start(), although the caller has unstaged them since.
C15_Witness ==
    /\ cl.cmd.pc = "transact"
    /\ cl.cmd.inputs.inquireData["passphrase"] = << >>
    /\ \E j \in 1..Len(cl.cmd.inquired) :
          /\ cl.cmd.inquired[j].what = "passphrase"
          /\ cl.cmd.inquired[j].reply = << <<1, 2>> >>

\* Place of a line in the fixed order.
Rank(kind) ==
    CASE kind = "CONNECT" -> 1
      [] kind = "GETINFO" -> 2
      [] kind \in {"WINDOW-ID", "OPTION"} -> 3
      [] kind = "FILE" -> 4
      [] kind = "SENDER" -> 5
      [] kind = "RECIPIENT" -> 6
      [] OTHER -> 7

\* How many lines of a kind have been sent, and how many the inputs ask for.
NumSent(kind) ==
    Cardinality({j \in 1..Len(cl.cmd.sent) : cl.cmd.sent[j].kind = kind})

NumWanted(kind) ==
    CASE kind = "OPTION" ->
           Cardinality({o \in OptionNames : cl.cmd.in.options[o] # "unset"})
      [] kind = "FILE" -> cl.cmd.in.filePaths
      [] kind = "SENDER" -> cl.cmd.in.senders
      [] OTHER -> cl.cmd.in.recipients

\* C16: the lines go out in the fixed order connect, GETINFO pid, options,
\* every FILE, every SENDER, every RECIPIENT, the command: no line is sent
\* before a line of a lower place, nor before every line of the lower places
\* has been sent.  The first fatal failure is the last line sent: the run
\* ends there with an error string.
C16_Order ==
    /\ \A j \in 1..Len(cl.cmd.sent) :
          /\ \A k \in 1..(j - 1) :
                Rank(cl.cmd.sent[k].kind) <= Rank(cl.cmd.sent[j].kind)
          /\ \A kind \in {"OPTION", "FILE", "SENDER", "RECIPIENT"} :
                Rank(kind) < Rank(cl.cmd.sent[j].kind)
                   => NumSent(kind) = NumWanted(kind)
          /\ j >= 1 => cl.cmd.sent[1].kind = "CONNECT"
          /\ j >= 2 => cl.cmd.sent[2].kind = "GETINFO"
          /\ Fatal(j) => /\ j = Len(cl.cmd.sent)
                         /\ cl.cmd.pc = "publish"
                         /\ cl.cmd.out.errorString # ""
    /\ \A kind \in {"OPTION", "FILE", "SENDER", "RECIPIENT"} :
          NumSent(kind) <= NumWanted(kind)
    /\ NumSent("COMMAND") <= 1

\* The server rejected the FILE line: nothing was sent after it, although a
\* sender, a recipient and the command were still to be sent.
C16_Witness ==
    /\ cl.cmd.pc = "publish"
    /\ Len(cl.cmd.sent) >= 3
    /\ cl.cmd.sent[Len(cl.cmd.sent)].kind = "FILE"
    /\ cl.cmd.sent[Len(cl.cmd.sent)].err = "err"
    /\ cl.cmd.sent[Len(cl.cmd.sent) - 1].kind = "OPTION"
    /\ cl.cmd.in.senders > 0 /\ cl.cmd.in.recipients > 0
    /\ cl.cmd.out.errorString = "Failed to send file path"

\* C17 as claimed: whenever the server answers an option, a FILE, SENDER or
\* RECIPIENT line or the command with the canceled code, that line is the
\* last one sent, and the run ends canceled with an empty error string.
C17_Claim ==
    \A j \in 1..Len(cl.cmd.sent) :
       (/\ cl.cmd.sent[j].kind \in
              {"OPTION", "FILE", "SENDER", "RECIPIENT", "COMMAND"}
        /\ cl.cmd.sent[j].err = "canceled")
          => /\ j = Len(cl.cmd.sent)
             /\ cl.cmd.pc = "publish"
             /\ cl.cmd.out.canceled
             /\ cl.cmd.out.errorString = ""

\* C18: the published result is one of success, canceled and error: the
\* canceled flag and a non-empty error string are never both set, neither in
\* the outputs the caller reads nor in the result a run is about to publish.
C18_Trio ==
    /\ ~(cl.cmd.outputs.canceled /\ cl.cmd.outputs.errorString # "")
    /\ cl.cmd.pc = "publish"
         => ~(cl.cmd.out.canceled /\ cl.cmd.out.errorString # "")

\* A run that the server canceled has been published.
C18_Witness ==
    /\ cl.cmd.pc = "idle"
    /\ cl.cmd.outputs.canceled /\ cl.cmd.outputs.errorString = ""
    /\ cl.cmd.outputs.serverPid = 4711

\* C19 as claimed: with a location L set by setServerLocation before
\* start(), the run connects to L, and serverLocation() returns L after the
\* run.
C19_Claim ==
    [][ /\ (cl.cmd.pc = "snapshot" /\ cl'.cmd.pc # "snapshot"
              /\ cl.cmd.outputs.serverLocation = "L")
           => cl'.cmd.out.serverLocation = "L"
        /\ (cl.cmd.pc = "publish" /\ cl'.cmd.pc = "idle"
              /\ cl.cmd.outputs.serverLocation = "L")
           => cl'.cmd.outputs.serverLocation = "L" ]_vars

\* C20: while run() is at work the outputs the getters read are the cleared
\* ones, and the step that ends the run replaces them by the complete result
\* of the run; no state shows a part of the result.
C20_Atomic ==
    /\ [](Running => cl.cmd.outputs = NewOutputs)
    /\ [][ (cl.cmd.pc = "publish" /\ cl'.cmd.pc = "idle")
             => cl'.cmd.outputs = cl.cmd.out ]_vars

\* run() holds the server's pid and received data that it has not published:
\* the caller still reads the cleared outputs.
C20_Witness ==
    /\ cl.cmd.pc = "transact"
    /\ cl.cmd.out.serverPid = 4711 /\ cl.cmd.out.data # << >>
    /\ cl.cmd.outputs = NewOutputs

\* C21: a read() that blocked on an empty buffer is woken only with data
\* buffered or with Eof or Error latched, so a read() that finds the buffer
\* empty when it returns finds Eof or Error: it returns -1 only with Error
\* latched and, asked for a byte or more, 0 only with Eof or Error latched.
C21_WokenWithCause ==
    /\ [](c.pc = "rd_wait" /\ c.woken
            => (~bufferEmpty(r) \/ r.eof \/ r.error))
    /\ [][ ReadReturns
             => /\ (c.pc # "idle" /\ bufferEmpty(r)) => (r.eof \/ r.error)
                /\ res'.ret = -1 => r.error
                /\ (res'.ret = 0 /\ res'.n >= 1) => (r.eof \/ r.error) ]_vars

\* A blocked read() has been woken with an empty buffer: the peer has closed
\* its end.
C21_Witness ==
    /\ c.pc = "rd_wait" /\ c.woken
    /\ bufferEmpty(r) /\ r.eof /\ r.pc = "blockedConsumerIsDone"

\* Indices of the array that hold unread bytes, and those the OS read in
\* progress may write.
UnreadAt(rr) ==
    {(rr.rptr + i) % SizeofBuffer : i \in 0..(bytesInBuffer(rr) - 1)}

ReadRange(rr) == {rr.wptr + i : i \in 0..(rr.numBytes - 1)}

AcksReadyRead ==
    \/ c.pc = "idle" /\ d'.queued = d.queued - 1
    \/ c.pc = "rd_lock"
    \/ c.pc \in {"cl_stopReader", "cl_wakeReader"}

\* C23: notification rendezvous.  A Reader that has notified the consumer
\* waits for the acknowledgement: it stays where it is, and issues no OS
\* read, until readyReadSentCondition is woken by the emitReadyRead slot, by
\* readData or by close(), or blockedConsumerIsDoneCondition by the read()
\* it has unblocked.
C23_Rendezvous ==
    [][ /\ (r.pc \in {"readyReadSent", "blockedConsumerIsDone"} /\ ~r.woken)
           => (r'.pc = r.pc /\ os'.delivered = os.delivered)
        /\ (r.pc = "readyReadSent" /\ ~r.woken /\ r'.woken) => AcksReadyRead
        /\ (r.pc = "blockedConsumerIsDone" /\ ~r.woken /\ r'.woken)
           => (c.pc = "rd_wait" /\ c.woken) ]_vars

\* The Reader has posted readyRead for a buffer with room left and holds off
\* its next OS read, although the peer has more to send.
C23_Witness ==
    /\ r.pc = "readyReadSent" /\ ~r.woken /\ r.site = "B"
    /\ d.queued > 0 /\ ~bufferFull(r) /\ os.delivered < os.stream

\* The Reader sleeps on the buffer it has filled (waiting for room, or for
\* the acknowledgement of its notification of the full buffer), and the
\* consumer has taken a byte since.
ReaderAsleepWithRoom ==
    /\ ~bufferFull(r)
    /\ \/ r.pc = "bufferNotFull"
       \/ r.pc = "readyReadSent" /\ r.site = "C"

\* C24: progress of Reader and consumer while the device stays open.  A
\* consumer blocked in read() is woken and its read() returns; a Reader
\* asleep on a full buffer issues its next OS read once the consumer has
\* taken a byte.  So neither sleeps on a condition variable forever.
C24_Progress ==
    /\ (c.pc = "rd_wait") ~> (c.pc = "returned" /\ res.op = "read")
    /\ ReaderAsleepWithRoom ~> (r.pc = "read")

\* The consumer is blocked in read() on the empty buffer, after it has read
\* data before, while the Reader is inside the OS read.
C24_Witness ==
    /\ c.pc = "rd_wait" /\ ~c.woken /\ r.consumerBlocksOnUs
    /\ r.pc = "read" /\ Len(app.out) > 0

\* C25: one pending write at a time.  Bytes are copied into the staging slot
\* only while the slot is empty and no error is latched; while the Writer is
\* writing the slot its contents do not change; a write() that found the
\* slot occupied is woken, and returns, only with the slot drained or an
\* error latched.
C25_OnePending ==
    /\ [](c.pc = "wr_wait" /\ c.woken
            => (writerBufferEmpty(w) \/ w.error))
    /\ [][ /\ (w'.buffer # w.buffer
                 \/ w'.numBytesInBuffer > w.numBytesInBuffer)
              => (writerBufferEmpty(w) /\ ~w.error
                    /\ c.pc \in {"idle", "wr_wait"})
           /\ (w.pc = "write" /\ w'.pc = "write") => w'.buffer = w.buffer
           /\ (WriteReturns /\ c.pc = "wr_wait")
              => (writerBufferEmpty(w) \/ w.error) ]_vars

\* A write() waits for the slot while the Writer has written a part of it.
C25_Witness ==
    /\ c.pc = "wr_wait" /\ ~c.woken
    /\ w.pc = "write" /\ w.totalWritten > 0
    /\ w.totalWritten < w.numBytesInBuffer

\* C26: the Writer flushes each slot completely and in order.  After a
\* partial OS write it writes the remainder next; it marks the slot empty
\* only when every byte of it has been written or an OS error has occurred;
\* each OS write hands over the bytes that follow those already written.
\* Without an OS error the bytes handed to the OS, followed by the remainder
\* of the slot, are the accepted bytes in order, and with the slot empty they
\* are all of them.
C26_Flush ==
    /\ [](~w.error
            => /\ os.written \o Unwritten(w) = Bytes(0, app.accepted)
               /\ writerBufferEmpty(w) => os.written = Bytes(0, app.accepted))
    /\ [][ /\ (w.pc = "write" /\ w' # w /\ w'.cancel = w.cancel /\ ~w'.error)
              => \E k \in 1..(w.numBytesInBuffer - w.totalWritten) :
                    /\ os'.written = os.written \o
                          SubSeq(w.buffer, w.totalWritten + 1,
                                 w.totalWritten + k)
                    /\ IF w.totalWritten + k < w.numBytesInBuffer
                       THEN /\ w'.pc = "write"
                            /\ w'.totalWritten = w.totalWritten + k
                            /\ w'.numBytesInBuffer = w.numBytesInBuffer
                       ELSE writerBufferEmpty(w')
           /\ (~writerBufferEmpty(w) /\ writerBufferEmpty(w'))
              => (w.pc = "write" /\ (w'.error \/ ~w.cancel)) ]_vars

\* Both slots of the consumer's data have reached the OS, the second one in
\* two OS writes: the Writer is about to write its remainder.
C26_Witness ==
    /\ ~w.error /\ w.pc = "write"
    /\ w.totalWritten > 0 /\ w.totalWritten < w.numBytesInBuffer
    /\ app.accepted = MaxSource
    /\ Len(os.written) + w.numBytesInBuffer - w.totalWritten = MaxSource

\* C27 as claimed, for waitForReadyRead: a call that waits is woken as soon
\* as data is buffered or Eof or Error is latched, and it returns true then;
\* it returns false only when the time is up with nothing to read.
C27_Claim ==
    /\ [](c.pc = "wfrr_wait" /\ (~bufferEmpty(r) \/ r.eof \/ r.error)
            => c.woken)
    /\ [][ (c.pc = "wfrr_wait" /\ c'.pc = "returned"
              /\ (~bufferEmpty(r) \/ r.eof \/ r.error))
             => res'.ok ]_vars

\* C28 as claimed: in every open/close cycle a read() is served by a Reader
\* thread that has been started, and a write() by a Writer thread that has
\* been started.
C28_Claim ==
    /\ c.pc \in {"rd_peek", "rd_lock", "rd_wait"} => r.pc # "notStarted"
    /\ (c.pc = "wr_wait" \/ (c.pc = "returned" /\ res.op = "write"))
          => w.pc # "notStarted"

\* C29: close() does not discard accepted bytes.  From the end of the wait
\* in stopThreads to the point where it sets the Writer's cancel flag, and
\* ever after, the staging slot is empty (bytesToWrite() is 0); and unless
\* the Writer has latched an error every accepted byte has been handed to
\* the OS by then.
C29_FlushBeforeCancel ==
    (c.pc \in {"cl_stopReader", "cl_stopWriter"} \/ w.cancel)
       => /\ writerBufferEmpty(w)
          /\ ~w.error => os.written = Bytes(0, app.accepted)

\* close() was called with a write pending and waited; the Writer has
\* flushed the slot and woken it.
C29_Witness ==
    /\ c.pc = "cl_wait" /\ c.woken
    /\ writerBufferEmpty(w) /\ ~w.error /\ ~w.cancel
    /\ app.accepted > 0 /\ os.written = Bytes(0, app.accepted)

\* C30 as claimed: close() returns, whatever the Reader is doing when it is
\* called: once close() has stopped the threads and joined the Writer, the
\* Reader exits and close() closes the device.
C30_Claim ==
    (c.pc = "cl_joinReader") ~> (~d.open /\ c.pc = "idle")

====
